---- MODULE Spec2Model ----
(***************************************************************************)
(* Verification model of the nullmaps layer/session state core:            *)
(*   - the session state store (src/lib/stores/mapStore.ts): active        *)
(*     layers, order, opacity, visibility, favourites, searchable fields,  *)
(*     viewport, deferred side effects, persistence and the rendering      *)
(*     surface it reconciles;                                              *)
(*   - the query engine fan-out (searchService / clickQueryService).       *)
(* Numbers with a fractional part are scaled by OpacityScale (tenths).     *)
(***************************************************************************)
EXTENDS Integers, Sequences, FiniteSets, TLC

VARIABLES
    boot,         \* module initialisation from arbitrary stored content
    clock,        \* time, and the deadline of the debounce timer of the 'move' listener
    mapState,     \* the value held by the writable store (MapState)
    storage,      \* localStorage['nullmaps-state']: <<>> when absent, else <<snapshot>>
    timers,       \* pending setTimeout(..., 0) callbacks, in firing order
    moveTimeout,  \* the debounce timer of the 'move' listener is pending
    surface,      \* the MapLibre instance: style layers, sources, camera
    lastOp,       \* the operation that produced the current state
    calls,        \* calls and renderer events so far, where a specification counts them
    query,        \* the fan-out of one searchFeatures / queryFeaturesAtLocation call
    catalog,      \* listService: the caches, the requests in flight, the last return
    layerQuery,   \* one searchLayerFeatures / queryLayerAtLocation call
    coordinate,   \* the go-to-coordinates form: its input and what was made of it
    panel,        \* the search box and the click handler: their flags, calls and slots
    feature       \* the features of one answer and what processFeatureResult makes of them

vars == <<boot, clock, mapState, storage, timers, moveTimeout, surface, lastOp, calls, query,
          catalog, layerQuery, coordinate, panel, feature>>

storeVars == <<mapState, storage, timers, moveTimeout, surface, lastOp>>

-----------------------------------------------------------------------------
(* Bounds of the model *)

\* pending zero-delay timers kept at once
MaxTimers == 2
\* length of the newOrder argument of reorderDynamicLayers
MaxOrderLen == 2
\* calls and renderer events of one behaviour of SpecPersist
MaxCalls == 4
\* time a behaviour of SpecViewport covers, in units of 10 ms
MaxTime == 30
\* callbacks pending during a burst of toggleDynamicLayer calls
MaxBurstTimers == 6
\* layers passed to one query
MaxQueryLayers == 3
\* the maxResults option of a query
MaxResultsOption == 2
\* features a remote layer returns beyond the requested resultRecordCount
MaxOverReturn == 1

\* calls of listService in one behaviour of SpecCatalog
MaxCatalogOps == 4
\* calls of fetchLayerFields and clearCache in one behaviour of SpecFields
MaxFieldOps == 3
\* calls of loadAllLayers in one behaviour of SpecLoader
MaxLoads == 3
\* services the two listings name together
MaxServices == 3
\* services of the public listing in one behaviour of SpecBatches
MaxBatchServices == 11
\* features in one answer of a layer
MaxFeatures == 2

-----------------------------------------------------------------------------
(* Values *)

Null == "null"

\* layer ids the callers pass; the catalog, once set, is a subset of them
Ids == {"a", "b"}

\* field names of a layer
FieldNames == {"NAME"}

\* 1.0 in tenths
OpacityScale == 10
\* 0.8, the default opacity seeded on first toggle
DefaultOpacity == 8
\* opacities callers pass: below range, in range, above range
OpacityInputs == {-1, 0, 5, 10, 11}

BasemapIds == {"carto-light", "carto-positron"}
DEFAULT_BASEMAP == "carto-light"

\* TASMANIA_BOUNDS.center and TASMANIA_BOUNDS.zoom (6.5, in tenths)
TasmaniaCenter == <<1468, -420>>
TasmaniaZoom == 65

\* cameras the renderer reports on 'move' (zoom and centre in tenths)
Cameras ==
    { [center |-> <<1473, -428>>, zoom |-> 120, bearing |-> 0],
      [center |-> <<0, 0>>, zoom |-> 0, bearing |-> 90] }

Min(x, y) == IF x < y THEN x ELSE y
Max(x, y) == IF x > y THEN x ELSE y

Range(s) == { s[i] : i \in 1..Len(s) }

SeqsUpTo(S, n) == UNION { [1..k -> S] : k \in 0..n }

\* JavaScript Map as a function with a finite domain
EmptyMap == [x \in {} |-> Null]
MapHas(m, k) == k \in DOMAIN m
MapSet(m, k, v) == [x \in (DOMAIN m) \cup {k} |-> IF x = k THEN v ELSE m[x]]

\* Array.from(map.entries()): the [key, value] pairs of a Map
Entries(m) == { <<k, m[k]>> : k \in DOMAIN m }
\* new Map(entries)
NewMap(entries) ==
    [k \in { e[1] : e \in entries } |-> (CHOOSE e \in entries : e[1] = k)[2]]

\* JavaScript Set, kept in insertion order (iteration and Array.from follow it)
SetHas(s, x) == x \in Range(s)
SetAdd(s, x) == IF SetHas(s, x) THEN s ELSE Append(s, x)
SetDelete(s, x) == SelectSeq(s, LAMBDA y : y # x)

\* new Set(array): duplicates dropped, first occurrence kept
RECURSIVE NewSet(_)
NewSet(arr) ==
    IF arr = <<>> THEN <<>>
    ELSE LET front == NewSet(SubSeq(arr, 1, Len(arr) - 1))
         IN SetAdd(front, arr[Len(arr)])

\* `n || fallback` on a number: 0 is falsy
OrElse(n, fallback) == IF n = 0 THEN fallback ELSE n

-----------------------------------------------------------------------------
(* Persistence adapter *)

NoStorage == <<>>

\* ids of the legacy layer table built from SERVICE_GROUPS (the basemaps)
LegacyLayerIds == BasemapIds

\* saveState: the persisted projection of the store value
PersistedState(st) ==
    [ activeBasemap |-> st.activeBasemap,
      activeLayerIds |-> st.activeLayerIds,
      activeDynamicLayerIds |-> st.activeDynamicLayerIds,
      dynamicLayerOrder |-> st.dynamicLayerOrder,
      dynamicLayerOpacities |-> Entries(st.dynamicLayerOpacities),
      dynamicLayerVisibilities |-> Entries(st.dynamicLayerVisibilities),
      favoriteLayerIds |-> st.favoriteLayerIds,
      layerSearchableFields |-> Entries(st.layerSearchableFields),
      center |-> st.center,
      zoom |-> st.zoom,
      bearing |-> st.bearing ]

\* saveStateToStorage: localStorage.setItem(STORAGE_KEY, JSON.stringify(state))
saveStateToStorage(persisted) == <<persisted>>

\* initializeLayers: the legacy active ids
initializeLayers(saved) ==
    IF saved = NoStorage
    THEN { DEFAULT_BASEMAP }
    ELSE { id \in saved[1].activeLayerIds : id \in LegacyLayerIds }

\* the store value built at module load from loadStateFromStorage()
InitialState(saved) ==
    [ map |-> FALSE,
      isLoaded |-> FALSE,
      center |-> IF saved = NoStorage THEN TasmaniaCenter ELSE saved[1].center,
      zoom |-> IF saved = NoStorage THEN TasmaniaZoom
               ELSE OrElse(saved[1].zoom, TasmaniaZoom),
      bearing |-> IF saved = NoStorage THEN 0 ELSE OrElse(saved[1].bearing, 0),
      activeBasemap |-> IF saved = NoStorage THEN DEFAULT_BASEMAP
                        ELSE saved[1].activeBasemap,
      activeLayerIds |-> initializeLayers(saved),
      dynamicLayers |-> {},
      activeDynamicLayerIds |->
          IF saved = NoStorage THEN <<>> ELSE NewSet(saved[1].activeDynamicLayerIds),
      dynamicLayerOrder |->
          IF saved = NoStorage THEN <<>> ELSE saved[1].dynamicLayerOrder,
      dynamicLayerOpacities |->
          IF saved = NoStorage THEN EmptyMap ELSE NewMap(saved[1].dynamicLayerOpacities),
      dynamicLayerVisibilities |->
          IF saved = NoStorage THEN EmptyMap
          ELSE NewMap(saved[1].dynamicLayerVisibilities),
      favoriteLayerIds |->
          IF saved = NoStorage THEN {} ELSE saved[1].favoriteLayerIds,
      layerSearchableFields |->
          IF saved = NoStorage THEN EmptyMap
          ELSE NewMap(saved[1].layerSearchableFields),
      searchResults |-> <<>>,
      selectedSearchResult |-> Null,
      searchResultsVisible |-> FALSE ]

-----------------------------------------------------------------------------
(* Module initialisation from arbitrary stored content *)

PersistedFields ==
    { "activeBasemap", "activeLayerIds", "activeDynamicLayerIds", "dynamicLayerOrder",
      "dynamicLayerOpacities", "dynamicLayerVisibilities", "favoriteLayerIds",
      "layerSearchableFields", "center", "zoom", "bearing" }

\* the JSON value found under a field of the stored object: a value of the
\* shape saveState writes ("valid"), no member, null, 0, a non-zero number, a
\* non-empty string (no basemap id), a plain object {}, an array of numbers
JsonShapes == {"valid", "missing", "null", "zero", "number", "string", "object", "array"}

\* shapes saveState never writes for the field
WrongShapes(field) ==
    IF field \in {"zoom", "bearing"}
    THEN JsonShapes \ {"valid", "zero", "number"}
    ELSE JsonShapes \ {"valid"}

AllValid == [f \in PersistedFields |-> "valid"]
AllMissing == [f \in PersistedFields |-> "missing"]

\* localStorage.getItem(STORAGE_KEY): nothing, text JSON.parse rejects, the
\* JSON null, a JSON number or string, or a JSON object
StoredContent(top, shapes) == [top |-> top, shapes |-> shapes]

StoredContents ==
    { StoredContent(top, AllMissing) :
        top \in {"absent", "unparseable", "null", "scalar"} }
    \cup { StoredContent("object", AllValid) }
    \cup { StoredContent("object", [AllValid EXCEPT ![f] = shape]) :
             f \in PersistedFields, shape \in JsonShapes }

\* the content is a snapshot as saveState writes it
WellFormed(raw) ==
    /\ raw.top = "object"
    /\ \A f \in PersistedFields : raw.shapes[f] \notin WrongShapes(f)

\* loadStateFromStorage: null for no content and when JSON.parse throws
\* (caught), else the parsed value
loadStateFromStorage(raw) ==
    IF raw.top \in {"absent", "unparseable", "null"}
    THEN [saved |-> FALSE, shapes |-> AllMissing]
    ELSE [saved |-> TRUE, shapes |-> raw.shapes]

Falsy(shape) == shape \in {"missing", "null", "zero"}
Nullish(shape) == shape \in {"missing", "null"}

\* what initialisation makes of one field of the loaded value: the default,
\* the saved value ("restored"), the legacy active set emptied ("cleared"),
\* a value of a foreign shape stored as it is ("foreign"), or a TypeError
FieldOutcome(field, loaded) ==
    LET shape == loaded.shapes[field]
    IN  IF ~loaded.saved THEN "default"
        ELSE CASE field = "activeLayerIds" ->
                    \* activeLayerIds.clear(); savedState.activeLayerIds?.forEach(...)
                    IF shape = "valid" THEN "restored"
                    ELSE IF Nullish(shape) \/ shape = "array" THEN "cleared"
                    ELSE "throws"
               [] field = "favoriteLayerIds" ->
                    \* savedState.favoriteLayerIds?.forEach(...)
                    IF shape = "valid" THEN "restored"
                    ELSE IF Nullish(shape) THEN "default"
                    ELSE IF shape = "array" THEN "foreign"
                    ELSE "throws"
               [] field \in {"center", "zoom", "bearing", "activeBasemap"} ->
                    \* savedState?.center || TASMANIA_BOUNDS.center
                    IF shape \notin WrongShapes(field) THEN "restored"
                    ELSE IF Falsy(shape) THEN "default"
                    ELSE "foreign"
               [] field = "dynamicLayerOrder" ->
                    \* savedState?.dynamicLayerOrder || []
                    IF shape = "valid" THEN "restored"
                    ELSE IF Falsy(shape) THEN "default"
                    ELSE "foreign"
               [] field = "activeDynamicLayerIds" ->
                    \* new Set(savedState?.activeDynamicLayerIds || [])
                    IF shape = "valid" THEN "restored"
                    ELSE IF Falsy(shape) THEN "default"
                    ELSE IF shape \in {"string", "array"} THEN "foreign"
                    ELSE "throws"
               [] field \in {"dynamicLayerOpacities", "dynamicLayerVisibilities"} ->
                    \* new Map(savedState?.dynamicLayerOpacities || [])
                    IF shape = "valid" THEN "restored"
                    ELSE IF Falsy(shape) THEN "default"
                    ELSE "throws"
               [] OTHER ->
                    \* new Map(savedState?.layerSearchableFields?.map(...) || [])
                    IF shape = "valid" THEN "restored"
                    ELSE IF Nullish(shape) THEN "default"
                    ELSE "throws"

\* initializeLayers() and the writable(...) initialiser, field by field; an
\* exception in any of them escapes the module
Initialised(raw) ==
    LET loaded == loadStateFromStorage(raw)
        fields == [f \in PersistedFields |-> FieldOutcome(f, loaded)]
    IN  [ phase |-> "initialised",
          raw |-> raw,
          threw |-> \E f \in PersistedFields : fields[f] = "throws",
          fields |-> fields ]

NoBoot ==
    [ phase |-> "none", raw |-> StoredContent("absent", AllMissing), threw |-> FALSE,
      fields |-> [f \in PersistedFields |-> "default"] ]

\* the page is opened on some stored content
Stored(raw) == [NoBoot EXCEPT !.phase = "stored", !.raw = raw]

\* the module is evaluated
LoadModule ==
    /\ boot.phase = "stored"
    /\ boot' = Initialised(boot.raw)

-----------------------------------------------------------------------------
(* Rendering surface *)

\* style layers of the two base styles: one with label layers, one without
StyleLayer(id, type) == [id |-> id, type |-> type, opacity |-> OpacityScale, visible |-> TRUE]

BaseStyle(basemap) ==
    IF basemap = "carto-light"
    THEN << StyleLayer("background", "background"),
            StyleLayer("water", "fill"),
            StyleLayer("place_city", "symbol") >>
    ELSE << StyleLayer("background", "background"),
            StyleLayer("water", "fill") >>

\* layer.id.includes('place_'), 'poi_', 'roadname_'
IdIncludes(id, part) ==
    \/ part = "place_" /\ id \in {"place_city"}
    \/ part = "poi_" /\ id \in {"poi_park"}
    \/ part = "roadname_" /\ id \in {"roadname_major"}

InitialSurface(basemap) ==
    [ layers |-> BaseStyle(basemap),
      sources |-> {},
      faults |-> {},
      camera |-> [center |-> TasmaniaCenter, zoom |-> 60, bearing |-> 0] ]

LayerIds(sf) == { sf.layers[i].id : i \in 1..Len(sf.layers) }

\* map.getLayer(id)
getLayer(sf, id) == id \in LayerIds(sf)

\* map.getSource(`${id}-source`)
getSource(sf, id) == id \in sf.sources

IndexOf(layers, id) == CHOOSE i \in 1..Len(layers) : layers[i].id = id

\* the surface refuses a call: an id that is already there, or is not there
Fault(sf, call, id) == [sf EXCEPT !.faults = @ \cup {<<call, id>>}]

\* map.addLayer(layer, before): below `before`, on top when before is undefined
addLayer(sf, layer, before) ==
    IF getLayer(sf, layer.id)
    THEN Fault(sf, "addLayer", layer.id)
    ELSE IF before = Null
    THEN [sf EXCEPT !.layers = Append(@, layer)]
    ELSE LET i == IndexOf(sf.layers, before)
         IN [sf EXCEPT !.layers =
                SubSeq(@, 1, i - 1) \o <<layer>> \o SubSeq(@, i, Len(@))]

removeLayer(sf, id) ==
    IF ~getLayer(sf, id)
    THEN Fault(sf, "removeLayer", id)
    ELSE [sf EXCEPT !.layers = SelectSeq(@, LAMBDA l : l.id # id)]

addSource(sf, id) ==
    IF getSource(sf, id)
    THEN Fault(sf, "addSource", id)
    ELSE [sf EXCEPT !.sources = @ \cup {id}]

removeSource(sf, id) ==
    IF ~getSource(sf, id)
    THEN Fault(sf, "removeSource", id)
    ELSE [sf EXCEPT !.sources = @ \ {id}]

\* first element of the style's layer list satisfying P, or Null
FirstLayer(layers, P(_)) ==
    IF \E i \in 1..Len(layers) : P(layers[i])
    THEN layers[CHOOSE i \in 1..Len(layers) :
                    /\ P(layers[i])
                    /\ \A j \in 1..(i - 1) : ~P(layers[j])].id
    ELSE Null

findDynamicLayerInsertionPoint(sf) ==
    LET mapLayers == sf.layers
        placeLayer == FirstLayer(mapLayers,
            LAMBDA l : l.type = "symbol" /\ IdIncludes(l.id, "place_"))
        poiLayer == FirstLayer(mapLayers,
            LAMBDA l : l.type = "symbol" /\ IdIncludes(l.id, "poi_"))
        roadLayer == FirstLayer(mapLayers,
            LAMBDA l : l.type = "symbol" /\ IdIncludes(l.id, "roadname_"))
        \* no style layer id ends with '-source', and none is named `${id}-source`
        fallbackLayer == FirstLayer(mapLayers, LAMBDA l : l.type # "background")
    IN  IF placeLayer # Null THEN placeLayer
        ELSE IF poiLayer # Null THEN poiLayer
        ELSE IF roadLayer # Null THEN roadLayer
        ELSE fallbackLayer

-----------------------------------------------------------------------------
(* Session state store: synchronous reads and the deferred callbacks *)

\* a setTimeout(..., 0) callback
SaveTask == [kind |-> "saveState", layerId |-> Null, ids |-> <<>>]
UpdateTask(layerId) == [kind |-> "updateDynamicMapLayer", layerId |-> layerId, ids |-> <<>>]
\* the callback of setLoaded, closed over state.activeDynamicLayerIds
InitTask(ids) == [kind |-> "addActiveLayers", layerId |-> Null, ids |-> ids]

\* lastOp: the operation and its arguments (one field per type of argument)
Op(name, id) == [op |-> name, id |-> id, num |-> 0, seq |-> <<>>, flag |-> FALSE]

\* `stored || 0.8`
storedOpacity(st, layerId) ==
    IF MapHas(st.dynamicLayerOpacities, layerId)
    THEN OrElse(st.dynamicLayerOpacities[layerId], DefaultOpacity)
    ELSE DefaultOpacity

\* `stored !== false`
isVisible(st, layerId) ==
    IF MapHas(st.dynamicLayerVisibilities, layerId)
    THEN st.dynamicLayerVisibilities[layerId]
    ELSE TRUE

RasterLayer(st, layerId) ==
    [ id |-> layerId, type |-> "raster",
      opacity |-> storedOpacity(st, layerId),
      visible |-> isVisible(st, layerId) ]

\* addDynamicLayerToMap(layerId): the surface it leaves, read against store value st
addDynamicLayerToMap(st, sf, layerId) ==
    IF ~st.map \/ layerId \notin st.dynamicLayers
    THEN sf
    ELSE LET withSource == IF ~getSource(sf, layerId) THEN addSource(sf, layerId) ELSE sf
         IN  IF ~getLayer(withSource, layerId)
             THEN addLayer(withSource, RasterLayer(st, layerId),
                           findDynamicLayerInsertionPoint(withSource))
             ELSE withSource

\* mutant: a layer that is no longer active stays on the surface
updateDynamicMapLayerAddOnly(st, sf, layerId) ==
    IF st.map /\ layerId \in st.dynamicLayers
          /\ SetHas(st.activeDynamicLayerIds, layerId) /\ ~getLayer(sf, layerId)
    THEN addDynamicLayerToMap(st, sf, layerId)
    ELSE sf

\* updateDynamicMapLayer(layerId)
updateDynamicMapLayer(st, sf, layerId) ==
    IF ~st.map \/ layerId \notin st.dynamicLayers
    THEN sf
    ELSE IF SetHas(st.activeDynamicLayerIds, layerId) /\ ~getLayer(sf, layerId)
         THEN addDynamicLayerToMap(st, sf, layerId)
    ELSE IF ~SetHas(st.activeDynamicLayerIds, layerId) /\ getLayer(sf, layerId)
         THEN LET removed == removeLayer(sf, layerId)
              IN  IF getSource(removed, layerId)
                  THEN removeSource(removed, layerId)
                  ELSE removed
    ELSE sf

\* the loop of the setLoaded callback over the captured active ids
RECURSIVE AddActiveLayers(_, _, _)
AddActiveLayers(st, sf, ids) ==
    IF ids = <<>> THEN sf
    ELSE AddActiveLayers(st, addDynamicLayerToMap(st, sf, Head(ids)), Tail(ids))

\* saveState(): getCurrentState(), project, write
saveState(st) == saveStateToStorage(PersistedState(st))

-----------------------------------------------------------------------------
(* Session state store: operations *)

setMap ==
    /\ ~mapState.map
    /\ mapState' = [mapState EXCEPT !.map = TRUE]
    /\ lastOp' = Op("setMap", Null)
    /\ UNCHANGED <<storage, timers, moveTimeout, surface>>

setLoaded(loaded) ==
    /\ mapState.map
    /\ ~mapState.isLoaded
    /\ Len(timers) < MaxTimers
    /\ mapState' = [mapState EXCEPT !.isLoaded = loaded]
    /\ timers' = IF loaded /\ mapState.map
                 THEN Append(timers, InitTask(mapState.activeDynamicLayerIds))
                 ELSE timers
    /\ lastOp' = [Op("setLoaded", Null) EXCEPT !.flag = loaded]
    /\ UNCHANGED <<storage, moveTimeout, surface>>

setDynamicLayers(layers) ==
    /\ mapState' = [mapState EXCEPT !.dynamicLayers = layers]
    /\ lastOp' = Op("setDynamicLayers", Null)
    /\ UNCHANGED <<storage, timers, moveTimeout, surface>>

\* mutant: the default opacity is written on every toggle
seedOpacityAlways(opacities, layerId) == MapSet(opacities, layerId, DefaultOpacity)

\* "Initialize opacity and visibility if not already set"
seedOpacity(opacities, layerId) ==
    IF ~MapHas(opacities, layerId)
    THEN MapSet(opacities, layerId, DefaultOpacity)
    ELSE opacities

seedVisibility(visibilities, layerId) ==
    IF ~MapHas(visibilities, layerId)
    THEN MapSet(visibilities, layerId, TRUE)
    ELSE visibilities

\* the value the update callback of toggleDynamicLayer returns
toggledState(st, layerId) ==
    IF layerId \notin st.dynamicLayers
    THEN st
    ELSE LET active == SetHas(st.activeDynamicLayerIds, layerId)
             newActive == IF active
                          THEN SetDelete(st.activeDynamicLayerIds, layerId)
                          ELSE SetAdd(st.activeDynamicLayerIds, layerId)
             newOrder == IF active
                         THEN SelectSeq(st.dynamicLayerOrder, LAMBDA id : id # layerId)
                         ELSE IF layerId \notin Range(st.dynamicLayerOrder)
                         THEN Append(st.dynamicLayerOrder, layerId)
                         ELSE st.dynamicLayerOrder
         IN  [st EXCEPT
                 !.activeDynamicLayerIds = newActive,
                 !.dynamicLayerOrder = newOrder,
                 !.dynamicLayerOpacities = seedOpacity(@, layerId),
                 !.dynamicLayerVisibilities = seedVisibility(@, layerId)]

\* toggleDynamicLayer(layerId): the update and the callbacks it schedules
toggleCall(layerId) ==
    /\ mapState' = toggledState(mapState, layerId)
    /\ timers' = IF layerId \notin mapState.dynamicLayers
                 THEN timers
                 ELSE IF mapState.map /\ mapState.isLoaded
                 THEN timers \o <<UpdateTask(layerId), SaveTask>>
                 ELSE Append(timers, SaveTask)
    /\ lastOp' = Op("toggleDynamicLayer", layerId)
    /\ UNCHANGED <<storage, moveTimeout, surface>>

toggleDynamicLayer(layerId) ==
    /\ Len(timers) + 2 <= MaxTimers
    /\ toggleCall(layerId)

\* mutant: the lower clamp is missing
ClampOpacityUpperOnly(opacity) == Min(OpacityScale, opacity)

\* Math.max(0, Math.min(1, opacity))
ClampOpacity(opacity) == Max(0, Min(OpacityScale, opacity))

setDynamicLayerOpacity(layerId, opacity) ==
    LET clampedOpacity == ClampOpacity(opacity)
    IN  /\ Len(timers) < MaxTimers
        /\ mapState' = [mapState EXCEPT !.dynamicLayerOpacities =
                            MapSet(@, layerId, clampedOpacity)]
        /\ surface' = IF mapState.map /\ getLayer(surface, layerId)
                      THEN [surface EXCEPT !.layers[IndexOf(surface.layers, layerId)].opacity
                                = clampedOpacity]
                      ELSE surface
        /\ timers' = Append(timers, SaveTask)
        /\ lastOp' = [Op("setDynamicLayerOpacity", layerId) EXCEPT !.num = opacity]
        /\ UNCHANGED <<storage, moveTimeout>>

setDynamicLayerVisibility(layerId, visible) ==
    /\ Len(timers) < MaxTimers
    /\ mapState' = [mapState EXCEPT !.dynamicLayerVisibilities =
                        MapSet(@, layerId, visible)]
    /\ surface' = IF mapState.map /\ getLayer(surface, layerId)
                  THEN [surface EXCEPT !.layers[IndexOf(surface.layers, layerId)].visible
                            = visible]
                  ELSE surface
    /\ timers' = Append(timers, SaveTask)
    /\ lastOp' = [Op("setDynamicLayerVisibility", layerId) EXCEPT !.flag = visible]
    /\ UNCHANGED <<storage, moveTimeout>>

\* reorderDynamicLayers: remove every active layer that is on the surface
RECURSIVE RemoveLayers(_, _)
RemoveLayers(sf, ids) ==
    IF ids = <<>> THEN sf
    ELSE RemoveLayers(IF getLayer(sf, Head(ids)) THEN removeLayer(sf, Head(ids)) ELSE sf,
                      Tail(ids))

\* reorderDynamicLayers: re-add the layers of newOrder below one insertion point
RECURSIVE ReAddLayers(_, _, _, _)
ReAddLayers(st, sf, order, insertionPoint) ==
    IF order = <<>> THEN sf
    ELSE LET layerId == Head(order)
             withSource == IF ~getSource(sf, layerId) THEN addSource(sf, layerId) ELSE sf
             added == IF ~getLayer(withSource, layerId)
                      THEN addLayer(withSource, RasterLayer(st, layerId), insertionPoint)
                      ELSE withSource
         IN  ReAddLayers(st,
                 IF layerId \in st.dynamicLayers /\ SetHas(st.activeDynamicLayerIds, layerId)
                 THEN added ELSE sf,
                 Tail(order), insertionPoint)

reorderDynamicLayers(newOrder) ==
    /\ Len(timers) < MaxTimers
    /\ lastOp' = [Op("reorderDynamicLayers", Null) EXCEPT !.seq = newOrder]
    /\ IF ~mapState.map
       THEN UNCHANGED <<mapState, surface, timers>>
       ELSE LET removed == RemoveLayers(surface, mapState.activeDynamicLayerIds)
                insertionPoint == findDynamicLayerInsertionPoint(removed)
            IN  /\ mapState' = [mapState EXCEPT !.dynamicLayerOrder = newOrder]
                /\ surface' = ReAddLayers(mapState, removed, newOrder, insertionPoint)
                /\ timers' = Append(timers, SaveTask)
    /\ UNCHANGED <<storage, moveTimeout>>

\* saveState() runs inside the update callback: getCurrentState() still
\* returns the value the store held before the update
toggleLayerFavorite(layerId) ==
    /\ mapState' = [mapState EXCEPT !.favoriteLayerIds =
                        IF layerId \in @ THEN @ \ {layerId} ELSE @ \cup {layerId}]
    /\ storage' = saveState(mapState)
    /\ lastOp' = Op("toggleLayerFavorite", layerId)
    /\ UNCHANGED <<timers, moveTimeout, surface>>

setBasemap(basemapId) ==
    /\ Len(timers) < MaxTimers
    /\ mapState' = [mapState EXCEPT !.activeBasemap = basemapId]
    /\ timers' = Append(timers, SaveTask)
    /\ lastOp' = Op("setBasemap", basemapId)
    /\ UNCHANGED <<storage, moveTimeout, surface>>

setLayerSearchableFields(layerId, fieldNames) ==
    /\ Len(timers) < MaxTimers
    /\ mapState' = [mapState EXCEPT !.layerSearchableFields =
                        MapSet(@, layerId, fieldNames)]
    /\ timers' = Append(timers, SaveTask)
    /\ lastOp' = Op("setLayerSearchableFields", layerId)
    /\ UNCHANGED <<storage, moveTimeout, surface>>

toggleFieldSearchable(layerId, fieldName) ==
    LET currentFields == IF MapHas(mapState.layerSearchableFields, layerId)
                         THEN mapState.layerSearchableFields[layerId]
                         ELSE {}
        toggled == IF fieldName \in currentFields
                   THEN currentFields \ {fieldName}
                   ELSE currentFields \cup {fieldName}
    IN  /\ Len(timers) < MaxTimers
        /\ mapState' = [mapState EXCEPT !.layerSearchableFields =
                            MapSet(@, layerId, toggled)]
        /\ timers' = Append(timers, SaveTask)
        /\ lastOp' = [Op("toggleFieldSearchable", layerId) EXCEPT !.seq = <<fieldName>>]
        /\ UNCHANGED <<storage, moveTimeout, surface>>

\* the renderer emits 'move': the listener restarts its 100 ms timer
MapMove(camera) ==
    /\ mapState.map
    /\ surface.camera # camera
    /\ surface' = [surface EXCEPT !.camera = camera]
    /\ moveTimeout' = TRUE
    /\ lastOp' = Op("move", Null)
    /\ UNCHANGED <<mapState, storage, timers>>

\* the 100 ms timer of the 'move' listener fires
MoveTimeoutFires(styleLoaded) ==
    /\ moveTimeout
    /\ moveTimeout' = FALSE
    /\ lastOp' = [Op("moveTimeout", Null) EXCEPT !.flag = styleLoaded]
    /\ IF styleLoaded
       THEN LET moved == [mapState EXCEPT !.center = surface.camera.center,
                                          !.zoom = surface.camera.zoom,
                                          !.bearing = surface.camera.bearing]
            IN  /\ mapState' = moved
                /\ storage' = saveState(moved)
       ELSE UNCHANGED <<mapState, storage>>
    /\ UNCHANGED <<timers, surface>>

\* the delay of the 'move' listener's timer: 100 ms, in units of 10 ms
DebounceDelay == 10

\* mutant: a pending timer is left running (a throttle, not a debounce)
RearmIfIdle(due, now) == IF due = -1 THEN now + DebounceDelay ELSE due

\* clearTimeout(moveTimeout); moveTimeout = setTimeout(..., 100): the deadline
\* of the timer after a 'move' event at time now
Rearm(due, now) == now + DebounceDelay

\* no timer pending (due = -1), no 'move' event yet
NoClock == [now |-> 0, due |-> -1, lastMoveAt |-> -1, writes |-> 0]

\* time passes
Tick ==
    /\ clock.now < MaxTime
    /\ clock' = [clock EXCEPT !.now = @ + 1]

\* a 'move' event at the current time
MoveAt(camera) ==
    /\ MapMove(camera)
    /\ clock' = [clock EXCEPT !.due = Rearm(clock.due, clock.now),
                              !.lastMoveAt = clock.now,
                              !.writes = 0]

\* the timer callback runs, at its deadline or later
MoveTimeoutFiresAt(styleLoaded) ==
    /\ clock.due # -1
    /\ clock.now >= clock.due
    /\ MoveTimeoutFires(styleLoaded)
    /\ clock' = [clock EXCEPT !.due = -1,
                              !.writes = IF styleLoaded THEN @ + 1 ELSE @]

\* the geometry of a search result: a point, a polygon, or none
ResultGeometries == {"Point", "Polygon", "none"}

\* the result lists a caller passes to setSearchResults
SearchResultLists == { <<>>, <<"none">>, <<"Polygon", "Point">> }

\* the layers and sources of the search overlays, legacy ones first
SearchLayerIds ==
    << "search-result-layer", "search-results-points", "search-results-labels",
       "search-results-lines", "search-results-polygons",
       "search-results-polygon-outlines" >>

SearchSourceIds == << "search-result-source", "search-results-source" >>

\* layerIds.forEach: if (map.getLayer(id)) map.removeLayer(id)
RECURSIVE RemoveLayersIfPresent(_, _)
RemoveLayersIfPresent(sf, ids) ==
    IF ids = <<>> THEN sf
    ELSE RemoveLayersIfPresent(
            IF getLayer(sf, Head(ids)) THEN removeLayer(sf, Head(ids)) ELSE sf,
            Tail(ids))

\* sourceIds.forEach: if (map.getSource(id)) map.removeSource(id)
RECURSIVE RemoveSourcesIfPresent(_, _)
RemoveSourcesIfPresent(sf, ids) ==
    IF ids = <<>> THEN sf
    ELSE RemoveSourcesIfPresent(
            IF getSource(sf, Head(ids)) THEN removeSource(sf, Head(ids)) ELSE sf,
            Tail(ids))

\* mutant: only the legacy layer and source are removed
clearSearchResultsFromMapLegacyOnly(st, sf) ==
    IF ~st.map THEN sf
    ELSE RemoveSourcesIfPresent(RemoveLayersIfPresent(sf, <<"search-result-layer">>),
                                <<"search-result-source">>)

\* clearSearchResultsFromMap(), read against store value st
clearSearchResultsFromMap(st, sf) ==
    IF ~st.map THEN sf
    ELSE RemoveSourcesIfPresent(RemoveLayersIfPresent(sf, SearchLayerIds),
                                SearchSourceIds)

\* addSearchResultLayers(map, featureCollection): one source, five layers
addSearchResultLayers(sf) ==
    LET s0 == addSource(sf, "search-results-source")
        s1 == addLayer(s0, StyleLayer("search-results-points", "circle"), Null)
        s2 == addLayer(s1, StyleLayer("search-results-labels", "symbol"), Null)
        s3 == addLayer(s2, StyleLayer("search-results-lines", "line"), Null)
        s4 == addLayer(s3, StyleLayer("search-results-polygons", "fill"), Null)
    IN  addLayer(s4, StyleLayer("search-results-polygon-outlines", "line"), Null)

\* addSearchResultsToMap(results)
addSearchResultsToMap(st, sf, results) ==
    IF ~st.map THEN sf
    ELSE LET cleared == clearSearchResultsFromMap(st, sf)
         IN  IF \A i \in 1..Len(results) : results[i] = "none"
             THEN cleared
             ELSE addSearchResultLayers(cleared)

\* addSearchResultToMap(result)
addSearchResultToMap(st, sf, result) ==
    IF ~st.map \/ result = "none" THEN sf
    ELSE LET cleared == clearSearchResultsFromMap(st, sf)
         IN  IF result = "Point"
             THEN addLayer(addSource(cleared, "search-result-source"),
                           StyleLayer("search-result-layer", "circle"), Null)
             ELSE cleared

\* clearCoordinateMarker(), read against store value st
clearCoordinateMarkerFromMap(st, sf) ==
    IF ~st.map THEN sf
    ELSE LET unlayered == IF getLayer(sf, "coordinate-marker-layer")
                          THEN removeLayer(sf, "coordinate-marker-layer") ELSE sf
         IN  IF getSource(unlayered, "coordinate-marker-source")
             THEN removeSource(unlayered, "coordinate-marker-source")
             ELSE unlayered

\* lastOp of an overlay call; flag tells whether the surface had the
\* overlay when the call began
OverlayOp(name, present) == [Op(name, Null) EXCEPT !.flag = present]

setSearchResults(results) ==
    /\ mapState' = [mapState EXCEPT !.searchResults = results,
                                    !.searchResultsVisible = Len(results) > 0]
    /\ surface' = addSearchResultsToMap(mapState', surface, results)
    /\ lastOp' = OverlayOp("setSearchResults",
                           getSource(surface, "search-results-source"))
    /\ UNCHANGED <<storage, timers, moveTimeout>>

\* selectSearchResult(result); result is Null or the geometry of the result
selectSearchResult(result) ==
    /\ mapState' = [mapState EXCEPT !.selectedSearchResult = result]
    /\ surface' = IF result # Null /\ result # "none"
                  THEN addSearchResultToMap(mapState', surface, result)
                  ELSE clearSearchResultsFromMap(mapState', surface)
    /\ lastOp' = OverlayOp("selectSearchResult",
                           getSource(surface, "search-result-source"))
    /\ UNCHANGED <<storage, timers, moveTimeout>>

clearSearchResults ==
    /\ mapState' = [mapState EXCEPT !.searchResults = <<>>,
                                    !.selectedSearchResult = Null,
                                    !.searchResultsVisible = FALSE]
    /\ surface' = clearSearchResultsFromMap(mapState', surface)
    /\ lastOp' = OverlayOp("clearSearchResults",
                           getSource(surface, "search-results-source"))
    /\ UNCHANGED <<storage, timers, moveTimeout>>

addCoordinateMarker ==
    /\ surface' =
         IF ~mapState.map THEN surface
         ELSE LET cleared == clearCoordinateMarkerFromMap(mapState, surface)
              IN  addLayer(addSource(cleared, "coordinate-marker-source"),
                           StyleLayer("coordinate-marker-layer", "circle"), Null)
    /\ lastOp' = OverlayOp("addCoordinateMarker",
                           getSource(surface, "coordinate-marker-source"))
    /\ UNCHANGED <<mapState, storage, timers, moveTimeout>>

clearCoordinateMarker ==
    /\ surface' = clearCoordinateMarkerFromMap(mapState, surface)
    /\ lastOp' = OverlayOp("clearCoordinateMarker",
                           getSource(surface, "coordinate-marker-source"))
    /\ UNCHANGED <<mapState, storage, timers, moveTimeout>>

\* the oldest zero-delay callback runs
RunTimer ==
    /\ timers # <<>>
    /\ LET task == Head(timers)
       IN  /\ timers' = Tail(timers)
           /\ lastOp' = [Op("timer", task.layerId) EXCEPT !.seq = <<task.kind>>]
           /\ IF task.kind = "saveState"
              THEN /\ storage' = saveState(mapState)
                   /\ UNCHANGED surface
              ELSE IF task.kind = "updateDynamicMapLayer"
              THEN /\ surface' = updateDynamicMapLayer(mapState, surface, task.layerId)
                   /\ UNCHANGED storage
              ELSE /\ surface' = AddActiveLayers(mapState, surface, task.ids)
                   /\ UNCHANGED storage
    /\ UNCHANGED <<mapState, moveTimeout>>

\* the page is loaded again: the module is initialised from storage, every
\* pending callback and the old map instance are gone
Reload ==
    /\ storage # NoStorage
    /\ lastOp.op # "reload"
    /\ mapState' = InitialState(storage)
    /\ timers' = <<>>
    /\ moveTimeout' = FALSE
    /\ surface' = InitialSurface(InitialState(storage).activeBasemap)
    /\ lastOp' = Op("reload", Null)
    /\ UNCHANGED storage

-----------------------------------------------------------------------------
(* listService: the service cache, the field cache and the requests in flight *)

\* the service names the callers pass
ServiceNames == {"Roads", "Basemaps/Topo"}

\* serviceName.startsWith('Basemaps/'), which here is serviceName.includes('/')
IsBasemap(serviceName) == serviceName = "Basemaps/Topo"

\* "Handle both Public and Basemaps service paths"
ServiceUrl(serviceName) ==
    IF IsBasemap(serviceName)
    THEN "services/Basemaps/Topo/MapServer"
    ELSE IF serviceName = "Parcels"
    THEN "services/Public/Parcels/MapServer"
    ELSE "services/Public/Roads/MapServer"

\* the callers of fetchLayerFields: searchLayerFeatures, queryLayerAtLocation
\* and loadLayerFields of the layer drawer
FieldCallers == {"search", "click", "panel"}

\* what the remote host answers to one request: fetch rejects ("network"),
\* the status is not 2xx ("http"), the body is not JSON ("unparseable"), or a
\* JSON body, which may carry an error, a layer list and a field list
FailedTransports == {"network", "http", "unparseable"}

Answer(transport, version, layers, error, hasFields, fields) ==
    [ transport |-> transport, version |-> version, layers |-> layers,
      error |-> error, hasFields |-> hasFields, fields |-> fields ]

NoAnswer == Answer("", 0, "", FALSE, FALSE, <<>>)

ServiceAnswers ==
    { Answer(t, 0, "", FALSE, FALSE, <<>>) : t \in FailedTransports }
        \cup { Answer("ok", v, l, FALSE, FALSE, <<>>) :
                 v \in 1..2, l \in {"absent", "empty", "some"} }

\* the raw field lists: none, one named field, one field without a name
RawFieldLists == { <<>>, <<"NAME">>, <<Null>> }

FieldAnswers ==
    { Answer(t, 0, "", FALSE, FALSE, <<>>) : t \in FailedTransports }
        \cup { Answer("ok", 0, "", TRUE, FALSE, <<>>) }
        \cup { Answer("ok", 0, "", FALSE, FALSE, <<>>) }
        \cup { Answer("ok", 0, "", FALSE, TRUE, f) : f \in RawFieldLists }

NoDescriptor == [serviceName |-> "", serviceUrl |-> "", version |-> 0, layers |-> ""]

\* the outcome of the try block of fetchMapService: the ArcGISMapServer built
\* from the answer, or a throw
ServiceResult(serviceName, answer) ==
    IF answer.transport # "ok"
    THEN [ok |-> FALSE, descriptor |-> NoDescriptor]
    ELSE IF answer.layers \in {"absent", "empty"} /\ ~IsBasemap(serviceName)
    THEN [ok |-> FALSE, descriptor |-> NoDescriptor]
    ELSE [ok |-> TRUE,
          descriptor |-> [ serviceName |-> serviceName,
                           serviceUrl |-> ServiceUrl(serviceName),
                           version |-> answer.version,
                           layers |-> IF answer.layers = "some"
                                      THEN "listed" ELSE "virtual" ]]

\* String(f.name || '') of every raw field
FieldList(raw) == [i \in 1..Len(raw) |-> IF raw[i] = Null THEN "" ELSE raw[i]]

\* mutant: the error payload of a 2xx answer is not inspected
FieldsResultUninspected(answer) ==
    IF answer.transport # "ok"
    THEN [ok |-> FALSE, fields |-> <<>>]
    ELSE [ok |-> TRUE, fields |-> FieldList(answer.fields)]

\* the outcome of the try block of fetchLayerFields: (data.fields || []).map(...)
\* or a throw
FieldsResult(answer) ==
    IF answer.transport # "ok" \/ answer.error
    THEN [ok |-> FALSE, fields |-> <<>>]
    ELSE [ok |-> TRUE, fields |-> FieldList(answer.fields)]

\* mutant: the descriptor is returned without being stored
rememberServiceNever(cache, serviceName, mapServer) == cache

\* servicesCache.set(serviceName, mapServer)
rememberService(cache, serviceName, mapServer) == MapSet(cache, serviceName, mapServer)

\* a request in flight: the call that issued it, the function and its key
Request(id, fn, key, caller) == [id |-> id, fn |-> fn, key |-> key, caller |-> caller]

\* what the last step returned to its caller
Return(seq, op, fn, key, caller, outcome, answer, descriptor, fields) ==
    [ seq |-> seq, op |-> op, fn |-> fn, key |-> key, caller |-> caller,
      outcome |-> outcome, answer |-> answer, descriptor |-> descriptor,
      fields |-> fields ]

\* one entry of a directory listing
Entry(name, type) == [name |-> name, type |-> type]

\* the service lists the two listing endpoints may return
PublicListings ==
    { <<>>,
      <<Entry("Roads", "MapServer")>>,
      <<Entry("Roads", "MapServer"), Entry("Parcels", "MapServer")>>,
      <<Entry("Parcels", "MapServer"), Entry("Roads", "FeatureServer"),
        Entry("Roads", "MapServer")>> }

BasemapListings == { <<>>, <<Entry("Basemaps/Topo", "MapServer")>> }

\* what a listing endpoint answers: a failed transport, a body without a
\* services array, or a body with one
Listing(transport, hasServices, services) ==
    [transport |-> transport, hasServices |-> hasServices, services |-> services]

ListingAnswers(listings) ==
    { Listing(t, FALSE, <<>>) : t \in FailedTransports }
        \cup { Listing("ok", FALSE, <<>>) }
        \cup { Listing("ok", TRUE, l) : l \in listings }

\* data.services.filter(type === 'MapServer').map(name)
MapServerNames(services) ==
    LET kept == SelectSeq(services, LAMBDA e : e.type = "MapServer")
    IN  [i \in 1..Len(kept) |-> kept[i].name]

\* the outcome of the try block of fetchPublicServices and of
\* fetchBasemapServices: the names, or a throw
ListingResult(answer) ==
    IF answer.transport # "ok" \/ ~answer.hasServices
    THEN [ok |-> FALSE, names |-> <<>>]
    ELSE [ok |-> TRUE, names |-> MapServerNames(answer.services)]

\* one SearchableLayer of the catalog; its id is serviceName_layerId
\* (the service name with its slash replaced for a basemap)
SearchableLayer(serviceName, layerId, type) ==
    [serviceName |-> serviceName, layerId |-> layerId, type |-> type]

\* the layers loadAllLayers makes of a described service: one for a basemap
\* service, else one for each layer of the descriptor
LayersOf(mapServer) ==
    IF IsBasemap(mapServer.serviceName)
    THEN << SearchableLayer(mapServer.serviceName, 0, "Basemap Layer") >>
    ELSE [ i \in 1..mapServer.version |->
             SearchableLayer(mapServer.serviceName, i - 1, "Feature Layer") ]

\* the state of one fetchMapService call of the batch
Described(state, descriptor) == [state |-> state, descriptor |-> descriptor]

\* mutant: a failed service contributes a placeholder layer
ContributionOrPlaceholder(serviceName, described) ==
    IF described.state = "ok"
    THEN LayersOf(described.descriptor)
    ELSE << SearchableLayer(serviceName, 0, "Unavailable") >>

\* what one service of the batch contributes: its layers, or [] from the catch
Contribution(serviceName, described) ==
    IF described.state = "ok" THEN LayersOf(described.descriptor) ELSE <<>>

\* allLayers.push(...batchResults.flat()), from service i on
RECURSIVE Flat(_, _, _)
Flat(serviceNames, outcomes, i) ==
    IF i > Len(serviceNames)
    THEN <<>>
    ELSE Contribution(serviceNames[i], outcomes[i])
            \o Flat(serviceNames, outcomes, i + 1)

\* no loadAllLayers call yet
NoLoad ==
    [ phase |-> "idle", public |-> "none", basemap |-> "none",
      publicNames |-> <<>>, basemapNames |-> <<>>, serviceNames |-> <<>>,
      outcomes |-> <<>>, result |-> <<>>, requests |-> 0, calls |-> 0,
      batch |-> 0, delay |-> FALSE ]

\* the module after import: empty caches, nothing in flight; serviceFetches,
\* fieldFetches and fieldFailures count the fetch() calls and the failures
\* since the last clearCache
NoCatalog ==
    [ servicesCache |-> EmptyMap,
      layerFieldsCache |-> EmptyMap,
      layerFields |-> EmptyMap,
      pending |-> {},
      ops |-> 0,
      serviceFetches |-> [n \in ServiceNames |-> 0],
      fieldFetches |-> [l \in Ids |-> 0],
      fieldFailures |-> [l \in Ids |-> 0],
      last |-> Return(0, "import", "", "", "", "", NoAnswer, NoDescriptor, <<>>),
      allLayersCache |-> <<>>,
      servicesListCache |-> <<>>,
      load |-> NoLoad ]

\* fetchMapService up to its first await
fetchMapService(serviceName) ==
    /\ catalog.ops < MaxCatalogOps
    /\ LET id == catalog.ops + 1
       IN  IF MapHas(catalog.servicesCache, serviceName)
           THEN catalog' =
                  [catalog EXCEPT
                     !.ops = id,
                     !.last = Return(id, "call", "fetchMapService", serviceName, "app",
                                     "cached", NoAnswer,
                                     catalog.servicesCache[serviceName], <<>>)]
           ELSE catalog' =
                  [catalog EXCEPT
                     !.ops = id,
                     !.pending = @ \cup {Request(id, "fetchMapService", serviceName, "app")},
                     !.serviceFetches[serviceName] = @ + 1,
                     !.last = Return(id, "call", "fetchMapService", serviceName, "app",
                                     "requested", NoAnswer, NoDescriptor, <<>>)]

\* the remote host answers a request of fetchMapService, which runs to its end
ServiceSettles(request, answer) ==
    /\ request \in catalog.pending
    /\ request.fn = "fetchMapService"
    /\ LET result == ServiceResult(request.key, answer)
       IN  catalog' =
             [catalog EXCEPT
                !.pending = @ \ {request},
                !.servicesCache =
                    IF result.ok
                    THEN rememberService(@, request.key, result.descriptor)
                    ELSE @,
                !.last = Return(request.id, "settle", request.fn, request.key,
                                request.caller,
                                IF result.ok THEN "resolved" ELSE "rejected",
                                answer, result.descriptor, <<>>)]

\* fetchLayerFields up to its first await, called for a layer of the catalog,
\* none of which carries a fields property (loadAllLayers sets none)
fetchLayerFields(layerId, caller) ==
    /\ catalog.ops < MaxFieldOps
    /\ LET id == catalog.ops + 1
       IN  IF MapHas(catalog.layerFieldsCache, layerId)
           THEN catalog' =
                  [catalog EXCEPT
                     !.ops = id,
                     !.layerFields =
                         IF caller = "panel"
                         THEN MapSet(@, layerId, catalog.layerFieldsCache[layerId])
                         ELSE @,
                     !.last = Return(id, "call", "fetchLayerFields", layerId, caller,
                                     "cached", NoAnswer, NoDescriptor,
                                     catalog.layerFieldsCache[layerId])]
           ELSE catalog' =
                  [catalog EXCEPT
                     !.ops = id,
                     !.pending = @ \cup {Request(id, "fetchLayerFields", layerId, caller)},
                     !.fieldFetches[layerId] = @ + 1,
                     !.last = Return(id, "call", "fetchLayerFields", layerId, caller,
                                     "requested", NoAnswer, NoDescriptor, <<>>)]

\* the remote host answers a request of fetchLayerFields, which runs to its
\* end: it stores and returns the fields, or rethrows; every caller catches
\* the rejection, and the layer drawer keeps the fields it was given
FieldsSettle(request, answer) ==
    /\ request \in catalog.pending
    /\ request.fn = "fetchLayerFields"
    /\ LET result == FieldsResult(answer)
       IN  catalog' =
             [catalog EXCEPT
                !.pending = @ \ {request},
                !.layerFieldsCache =
                    IF result.ok THEN MapSet(@, request.key, result.fields) ELSE @,
                !.layerFields =
                    IF result.ok /\ request.caller = "panel"
                    THEN MapSet(@, request.key, result.fields)
                    ELSE @,
                !.fieldFailures[request.key] = IF result.ok THEN @ ELSE @ + 1,
                !.last = Return(request.id, "settle", request.fn, request.key,
                                request.caller,
                                IF result.ok THEN "resolved" ELSE "rejected",
                                answer, NoDescriptor, result.fields)]

\* clearCache(); the requests in flight are not cancelled
clearCache ==
    /\ catalog.ops < MaxCatalogOps
    /\ catalog' =
         [catalog EXCEPT
            !.ops = @ + 1,
            !.servicesCache = EmptyMap,
            !.layerFieldsCache = EmptyMap,
            !.serviceFetches = [n \in ServiceNames |-> 0],
            !.fieldFetches = [l \in Ids |-> 0],
            !.fieldFailures = [l \in Ids |-> 0],
            !.allLayersCache = <<>>,
            !.servicesListCache = <<>>,
            !.last = Return(catalog.ops + 1, "clear", "clearCache", "", "", "",
                            NoAnswer, NoDescriptor, <<>>)]

\* loadAllLayers up to its first await: the memoized list, or the two
\* listings, of which fetchPublicServices answers from its cache when it can.
\* The caller awaits one call before it makes the next.
loadAllLayers ==
    LET ld == catalog.load
    IN  /\ ld.calls < MaxLoads
        /\ ld.phase \in {"idle", "resolved", "rejected"}
        /\ ld.public # "pending" /\ ld.basemap # "pending"
        /\ IF catalog.allLayersCache # <<>>
           THEN catalog' =
                  [catalog EXCEPT
                     !.load = [NoLoad EXCEPT !.phase = "resolved",
                                             !.result = catalog.allLayersCache[1],
                                             !.calls = ld.calls + 1]]
           ELSE catalog' =
                  [catalog EXCEPT
                     !.load =
                        [NoLoad EXCEPT
                           !.phase = "listing",
                           !.public = IF catalog.servicesListCache # <<>>
                                      THEN "cached" ELSE "pending",
                           !.publicNames = IF catalog.servicesListCache # <<>>
                                           THEN catalog.servicesListCache[1] ELSE <<>>,
                           !.basemap = "pending",
                           !.requests = IF catalog.servicesListCache # <<>>
                                        THEN 1 ELSE 2,
                           !.calls = ld.calls + 1]]

\* mutant: the list is returned without being memoized
FinishedUnmemoized(cat) ==
    IF cat.load.phase = "describing"
       /\ \A i \in 1..Len(cat.load.outcomes) : cat.load.outcomes[i].state # "pending"
    THEN [cat EXCEPT !.load.phase = "resolved",
                     !.load.result = Flat(cat.load.serviceNames, cat.load.outcomes, 1)]
    ELSE cat

\* the batch is over: the flattened list is memoized and returned
Finished(cat) ==
    IF cat.load.phase = "describing"
       /\ \A i \in 1..Len(cat.load.outcomes) : cat.load.outcomes[i].state # "pending"
    THEN LET allLayers == Flat(cat.load.serviceNames, cat.load.outcomes, 1)
         IN  [cat EXCEPT !.allLayersCache = <<allLayers>>,
                         !.load.phase = "resolved",
                         !.load.result = allLayers]
    ELSE cat

\* const batchSize = 5
batchSize == 5

\* the services of serviceNames.slice(i, i + batchSize), i = load.batch
BatchOf(ld) ==
    { i \in 1..Len(ld.serviceNames) : i > ld.batch /\ i <= ld.batch + batchSize }

\* mutant: every service is requested at once
IssueAll(cat) ==
    LET outcomes ==
           [ i \in 1..Len(cat.load.serviceNames) |->
               IF cat.load.outcomes[i].state # "waiting"
               THEN cat.load.outcomes[i]
               ELSE IF MapHas(cat.servicesCache, cat.load.serviceNames[i])
               THEN Described("ok", cat.servicesCache[cat.load.serviceNames[i]])
               ELSE Described("pending", NoDescriptor) ]
        issued == Cardinality({ i \in 1..Len(outcomes) :
                                  /\ cat.load.outcomes[i].state = "waiting"
                                  /\ outcomes[i].state = "pending" })
    IN  [cat EXCEPT !.load.outcomes = outcomes, !.load.requests = @ + issued]

\* batch.map(...): fetchMapService is called for every service of the batch
\* and answers from servicesCache when it can
IssueBatch(cat) ==
    LET outcomes ==
           [ i \in 1..Len(cat.load.serviceNames) |->
               IF i \notin BatchOf(cat.load)
               THEN cat.load.outcomes[i]
               ELSE IF MapHas(cat.servicesCache, cat.load.serviceNames[i])
               THEN Described("ok", cat.servicesCache[cat.load.serviceNames[i]])
               ELSE Described("pending", NoDescriptor) ]
        issued == Cardinality({ i \in BatchOf(cat.load) :
                                  outcomes[i].state = "pending" })
    IN  [cat EXCEPT !.load.outcomes = outcomes, !.load.requests = @ + issued]

\* await Promise.all(batchPromises) has resolved or not: when it has, the
\* loop waits 100 ms before the next batch, or ends after the last one
BatchSettled(cat) ==
    IF \E i \in BatchOf(cat.load) : cat.load.outcomes[i].state = "pending"
    THEN cat
    ELSE IF cat.load.batch + batchSize < Len(cat.load.serviceNames)
    THEN [cat EXCEPT !.load.delay = TRUE]
    ELSE Finished(cat)

\* Promise.all of the listings has resolved: the loop over the batches starts
\* with the first batch
Discovered(cat) ==
    IF /\ cat.load.phase = "listing"
       /\ cat.load.public \in {"cached", "done"}
       /\ cat.load.basemap = "done"
    THEN LET serviceNames == cat.load.publicNames \o cat.load.basemapNames
         IN  BatchSettled(IssueBatch(
                [cat EXCEPT !.load.phase = "describing",
                            !.load.serviceNames = serviceNames,
                            !.load.outcomes =
                                [ i \in 1..Len(serviceNames) |->
                                    Described("waiting", NoDescriptor) ],
                            !.load.batch = 0]))
    ELSE cat

\* the 100 ms between two batches are over: i += batchSize and the next batch
\* is requested
BatchDelayElapses ==
    /\ catalog.load.phase = "describing"
    /\ catalog.load.delay
    /\ catalog' =
         BatchSettled(IssueBatch([catalog EXCEPT !.load.delay = FALSE,
                                                 !.load.batch = @ + batchSize]))

\* Promise.all rejects with the first listing that fails
ListingRejects(cat) ==
    IF cat.load.phase = "listing" THEN [cat EXCEPT !.load.phase = "rejected"] ELSE cat

\* the public listing is answered: fetchPublicServices memoizes the names,
\* or throws
PublicListingSettles(answer) ==
    /\ catalog.load.public = "pending"
    /\ LET result == ListingResult(answer)
       IN  catalog' =
             IF result.ok
             THEN Discovered([catalog EXCEPT !.servicesListCache = <<result.names>>,
                                             !.load.public = "done",
                                             !.load.publicNames = result.names])
             ELSE ListingRejects([catalog EXCEPT !.load.public = "failed"])

\* the basemap listing is answered: fetchBasemapServices returns the names,
\* or throws
BasemapListingSettles(answer) ==
    /\ catalog.load.basemap = "pending"
    /\ LET result == ListingResult(answer)
       IN  catalog' =
             IF result.ok
             THEN Discovered([catalog EXCEPT !.load.basemap = "done",
                                             !.load.basemapNames = result.names])
             ELSE ListingRejects([catalog EXCEPT !.load.basemap = "failed"])

\* the describe request of service i of the batch is answered: fetchMapService
\* stores and returns the descriptor, or throws and the batch catches
DescribeSettles(i, answer) ==
    /\ catalog.load.phase = "describing"
    /\ i \in 1..Len(catalog.load.outcomes)
    /\ catalog.load.outcomes[i].state = "pending"
    /\ LET serviceName == catalog.load.serviceNames[i]
           result == ServiceResult(serviceName, answer)
       IN  catalog' =
             BatchSettled([catalog EXCEPT
                         !.servicesCache =
                             IF result.ok
                             THEN rememberService(@, serviceName, result.descriptor)
                             ELSE @,
                         !.load.outcomes[i] =
                             IF result.ok
                             THEN Described("ok", result.descriptor)
                             ELSE Described("failed", NoDescriptor)])

-----------------------------------------------------------------------------
(* Coordinate helpers: parsing, validation and conversion of MGA coordinates *)

\* the characters of a typed input: digits, a letter, a blank, a comma
Digits == {"1", "2"}
Chars == Digits \cup {"a", " ", ","}

\* longest typed input
MaxInputLen == 4

DigitValue(c) == IF c = "1" THEN 1 ELSE 2

\* String.prototype.trim, on a sequence of characters
RECURSIVE trimStart(_)
trimStart(s) == IF s # <<>> /\ Head(s) = " " THEN trimStart(Tail(s)) ELSE s

RECURSIVE trimEnd(_)
trimEnd(s) ==
    IF s # <<>> /\ s[Len(s)] = " " THEN trimEnd(SubSeq(s, 1, Len(s) - 1)) ELSE s

trim(s) == trimEnd(trimStart(s))

\* .replace(/\s*,\s*/g, ' '): every comma, with the blanks around it, to a blank
RECURSIVE replaceCommas(_)
replaceCommas(s) ==
    IF s = <<>> THEN <<>>
    ELSE LET rest == trimStart(s)
         IN  IF rest # <<>> /\ Head(rest) = ","
             THEN <<" ">> \o replaceCommas(trimStart(Tail(rest)))
             ELSE <<Head(s)>> \o replaceCommas(Tail(s))

\* .replace(/\s+/g, ' '): every run of blanks to one blank
RECURSIVE replaceBlanks(_)
replaceBlanks(s) ==
    IF s = <<>> THEN <<>>
    ELSE IF Head(s) = " "
    THEN <<" ">> \o replaceBlanks(trimStart(s))
    ELSE <<Head(s)>> \o replaceBlanks(Tail(s))

\* cleaned.split(' ')
RECURSIVE split(_)
split(s) ==
    IF \A i \in 1..Len(s) : s[i] # " "
    THEN <<s>>
    ELSE LET i == CHOOSE k \in 1..Len(s) :
                     s[k] = " " /\ \A j \in 1..(k - 1) : s[j] # " "
         IN  <<SubSeq(s, 1, i - 1)>> \o split(SubSeq(s, i + 1, Len(s)))

\* the digits a token begins with
RECURSIVE DigitPrefix(_)
DigitPrefix(token) ==
    IF token # <<>> /\ Head(token) \in Digits
    THEN <<Head(token)>> \o DigitPrefix(Tail(token))
    ELSE <<>>

RECURSIVE NumberOf(_, _)
NumberOf(digits, acc) ==
    IF digits = <<>> THEN acc
    ELSE NumberOf(Tail(digits), 10 * acc + DigitValue(Head(digits)))

\* parseFloat(token): the number its leading digits spell, NaN when it has none
parseFloat(token) ==
    [ nan |-> DigitPrefix(token) = <<>>, value |-> NumberOf(DigitPrefix(token), 0) ]

\* MGACoordinate | null
Coordinates(easting, northing) == [ok |-> TRUE, easting |-> easting, northing |-> northing]
NoCoordinates == [ok |-> FALSE, easting |-> 0, northing |-> 0]

parseCoordinateInput(input) ==
    IF input = <<>> THEN NoCoordinates
    ELSE LET cleaned == replaceBlanks(replaceCommas(trim(input)))
             parts == split(cleaned)
         IN  IF Len(parts) # 2 THEN NoCoordinates
             ELSE LET easting == parseFloat(parts[1])
                      northing == parseFloat(parts[2])
                  IN  IF easting.nan \/ northing.nan
                      THEN NoCoordinates
                      ELSE Coordinates(easting.value, northing.value)

\* MGA Zone 55 coordinate ranges for Tasmania
TASMANIA_MGA_BOUNDS ==
    [ easting |-> [min |-> 200000, max |-> 700000],
      northing |-> [min |-> 5150000, max |-> 5700000] ]

\* Number.isFinite
IsFinite(x) == x \in Int

NumbersError == "Coordinates must be valid numbers"
EastingError == "Easting must be between 200,000 and 700,000"
NorthingError == "Northing must be between 5,150,000 and 5,700,000"

\* CoordinateValidationResult
Valid == [isValid |-> TRUE, error |-> ""]
Invalid(error) == [isValid |-> FALSE, error |-> error]

\* mutant: the northing range is looked at first
validateMGACoordinatesNorthingFirst(easting, northing) ==
    IF ~IsFinite(easting) \/ ~IsFinite(northing)
    THEN Invalid(NumbersError)
    ELSE IF northing < TASMANIA_MGA_BOUNDS.northing.min
            \/ northing > TASMANIA_MGA_BOUNDS.northing.max
    THEN Invalid(NorthingError)
    ELSE IF easting < TASMANIA_MGA_BOUNDS.easting.min
            \/ easting > TASMANIA_MGA_BOUNDS.easting.max
    THEN Invalid(EastingError)
    ELSE Valid

validateMGACoordinates(easting, northing) ==
    IF ~IsFinite(easting) \/ ~IsFinite(northing)
    THEN Invalid(NumbersError)
    ELSE IF easting < TASMANIA_MGA_BOUNDS.easting.min
            \/ easting > TASMANIA_MGA_BOUNDS.easting.max
    THEN Invalid(EastingError)
    ELSE IF northing < TASMANIA_MGA_BOUNDS.northing.min
            \/ northing > TASMANIA_MGA_BOUNDS.northing.max
    THEN Invalid(NorthingError)
    ELSE Valid

\* convertMGAToLatLong: it returns when the coordinates are valid, the code
\* runs in the browser and proj4 lands inside Tasmania; it throws otherwise
convertMGAToLatLong(easting, northing, lands) ==
    IF ~validateMGACoordinates(easting, northing).isValid THEN "raised"
    ELSE IF lands THEN "returned"
    ELSE "raised"

\* numbers entered in the two fields of the form, around each bound
Eastings == {199999, 200000, 450000, 700000, 700001}
Northings == {5149999, 5150000, 5400000, 5700000, 5700001}

NoValidation == [done |-> FALSE, isValid |-> FALSE, error |-> ""]

\* the form before anything is typed
NoCoordinate ==
    [ phase |-> "typing", mode |-> "combined", input |-> <<>>,
      coords |-> NoCoordinates, validation |-> NoValidation,
      conversion |-> "none" ]

CoordinateIdle ==
    UNCHANGED <<storeVars, calls, query, boot, clock, catalog, layerQuery, panel, feature>>

\* a character is typed into the combined field
TypeChar(c) ==
    /\ coordinate.phase = "typing"
    /\ Len(coordinate.input) < MaxInputLen
    /\ coordinate' = [coordinate EXCEPT !.input = Append(@, c)]

\* handleGoToCoordinates, combined mode: the text is parsed
ParseCombined ==
    /\ coordinate.phase = "typing"
    /\ LET coords == parseCoordinateInput(coordinate.input)
       IN  coordinate' = [coordinate EXCEPT
                            !.mode = "combined",
                            !.coords = coords,
                            !.phase = IF coords.ok THEN "parsed" ELSE "rejected"]

\* handleGoToCoordinates, separate mode: two finite numbers
EnterSeparate(easting, northing) ==
    /\ coordinate.phase = "typing"
    /\ coordinate.input = <<>>
    /\ coordinate' = [coordinate EXCEPT
                        !.mode = "separate",
                        !.coords = Coordinates(easting, northing),
                        !.phase = "parsed"]

Validate ==
    /\ coordinate.phase = "parsed"
    /\ ~coordinate.validation.done
    /\ LET v == validateMGACoordinates(coordinate.coords.easting,
                                       coordinate.coords.northing)
       IN  coordinate' = [coordinate EXCEPT
                            !.validation = [done |-> TRUE, isValid |-> v.isValid,
                                            error |-> v.error]]

Convert(lands) ==
    /\ coordinate.phase = "parsed"
    /\ coordinate.conversion = "none"
    /\ coordinate' = [coordinate EXCEPT
                        !.conversion = convertMGAToLatLong(coordinate.coords.easting,
                                                           coordinate.coords.northing,
                                                           lands)]

clearInputs ==
    /\ coordinate # NoCoordinate
    /\ coordinate' = NoCoordinate

NextCoordinate ==
    \/ \E c \in Chars : TypeChar(c) /\ CoordinateIdle
    \/ ParseCombined /\ CoordinateIdle
    \/ \E easting \in Eastings, northing \in Northings :
          EnterSeparate(easting, northing) /\ CoordinateIdle
    \/ Validate /\ CoordinateIdle
    \/ \E lands \in BOOLEAN : Convert(lands) /\ CoordinateIdle
    \/ clearInputs /\ CoordinateIdle

-----------------------------------------------------------------------------
(* The search box, the click handler and the features of an answer: initial values *)

\* a result list and the call it answers (0: none)
Shown(of, n) == [of |-> of, n |-> n]
NoResults == Shown(0, 0)

\* AppHeader and the map page before any input
NoPanel ==
    [ event |-> "init",
      \* AppHeader: the debounce timer, the state of the box, the calls in flight
      timeoutId |-> <<>>,
      searchResults |-> NoResults, searchError |-> "", showResults |-> FALSE,
      isSearching |-> FALSE, issued |-> 0, searches |-> <<>>,
      \* the map page: handleMapClick and the click-result slot of the store
      clickQueryLoading |-> FALSE, clickQueryError |-> "", accepted |-> 0,
      clickQueries |-> {}, clickQueryResults |-> NoResults,
      \* per-layer requests issued so far
      requests |-> 0 ]

\* no answer mapped yet
NoFeature == [layer |-> "", features |-> <<>>, results |-> <<>>]

-----------------------------------------------------------------------------
(* Specification of the store *)

StoreInit ==
    /\ storage = NoStorage
    /\ mapState = InitialState(NoStorage)
    /\ timers = <<>>
    /\ moveTimeout = FALSE
    /\ surface = InitialSurface(DEFAULT_BASEMAP)
    /\ lastOp = Op("init", Null)

Init ==
    /\ StoreInit
    /\ calls = 0
    /\ query = [phase |-> "idle"]
    /\ boot = NoBoot
    /\ clock = NoClock
    /\ catalog = NoCatalog
    /\ layerQuery = [phase |-> "idle"]
    /\ coordinate = NoCoordinate
    /\ panel = NoPanel
    /\ feature = NoFeature

\* the catalog AppHeader passes once loadAllLayers has resolved
Catalogs == { Ids }

\* the layer stack: activation, order and the reconciliation of the surface
\* the caller outside the store leaves the call budget and the query alone
Unbudgeted == UNCHANGED <<calls, query, boot, clock, catalog, layerQuery, coordinate, panel, feature>>

\* one call of the bounded number of calls of a behaviour of SpecPersist
Budgeted == calls < MaxCalls /\ calls' = calls + 1 /\ UNCHANGED <<query, boot, clock, catalog, layerQuery, coordinate, panel, feature>>

Next ==
    \/ setMap /\ Unbudgeted
    \/ setLoaded(TRUE) /\ Unbudgeted
    \/ \E layers \in Catalogs : setDynamicLayers(layers) /\ Unbudgeted
    \/ \E id \in Ids : toggleDynamicLayer(id) /\ Unbudgeted
    \/ \E newOrder \in SeqsUpTo(Ids, MaxOrderLen) :
          reorderDynamicLayers(newOrder) /\ Unbudgeted
    \/ RunTimer /\ Unbudgeted
    \/ Reload /\ Unbudgeted

Spec == Init /\ [][Next]_vars

\* opacity and visibility of the layers, stored and painted
NextPaint ==
    \/ setMap /\ Unbudgeted
    \/ setLoaded(TRUE) /\ Unbudgeted
    \/ \E layers \in Catalogs : setDynamicLayers(layers) /\ Unbudgeted
    \/ \E id \in Ids : toggleDynamicLayer(id) /\ Unbudgeted
    \/ \E id \in Ids, v \in OpacityInputs : setDynamicLayerOpacity(id, v) /\ Unbudgeted
    \/ \E id \in Ids, visible \in BOOLEAN :
          setDynamicLayerVisibility(id, visible) /\ Unbudgeted
    \/ RunTimer /\ Unbudgeted

SpecPaint == Init /\ [][NextPaint]_vars

\* every persisted field, the viewport and the reload of the page
NextPersist ==
    \/ setMap /\ Budgeted
    \/ \E layers \in Catalogs : setDynamicLayers(layers) /\ Budgeted
    \/ \E id \in Ids : toggleDynamicLayer(id) /\ Budgeted
    \/ \E newOrder \in SeqsUpTo(Ids, 1) : reorderDynamicLayers(newOrder) /\ Budgeted
    \/ \E id \in Ids, v \in OpacityInputs : setDynamicLayerOpacity(id, v) /\ Budgeted
    \/ \E id \in Ids, visible \in BOOLEAN :
          setDynamicLayerVisibility(id, visible) /\ Budgeted
    \/ \E id \in Ids : toggleLayerFavorite(id) /\ Budgeted
    \/ \E basemapId \in BasemapIds : setBasemap(basemapId) /\ Budgeted
    \/ \E id \in Ids, fieldNames \in SUBSET FieldNames :
          setLayerSearchableFields(id, fieldNames) /\ Budgeted
    \/ \E id \in Ids, fieldName \in FieldNames :
          toggleFieldSearchable(id, fieldName) /\ Budgeted
    \/ \E camera \in Cameras : MapMove(camera) /\ Budgeted
    \/ Reload /\ Budgeted
    \/ \E styleLoaded \in BOOLEAN : MoveTimeoutFires(styleLoaded) /\ Unbudgeted
    \/ RunTimer /\ Unbudgeted

SpecPersist == Init /\ [][NextPersist]_vars

\* activation, loading and reload without reorder calls
NextLoad ==
    \/ setMap /\ Unbudgeted
    \/ setLoaded(TRUE) /\ Unbudgeted
    \/ \E layers \in Catalogs : setDynamicLayers(layers) /\ Unbudgeted
    \/ \E id \in Ids : toggleDynamicLayer(id) /\ Unbudgeted
    \/ RunTimer /\ Unbudgeted
    \/ Reload /\ Unbudgeted

SpecLoad == Init /\ [][NextLoad]_vars

\* bursts of toggleDynamicLayer calls ahead of their deferred callbacks
NextBurst ==
    \/ setMap /\ Unbudgeted
    \/ setLoaded(TRUE) /\ Unbudgeted
    \/ \E layers \in Catalogs : setDynamicLayers(layers) /\ Unbudgeted
    \/ \E id \in Ids :
          Len(timers) + 2 <= MaxBurstTimers /\ toggleCall(id) /\ Unbudgeted
    \/ RunTimer /\ Unbudgeted
    \/ Reload /\ Unbudgeted

SpecBurst == Init /\ [][NextBurst]_vars

\* the layers the store puts on the surface: dynamic layers, search overlays
\* and the coordinate marker
NextOverlay ==
    \/ setMap /\ Unbudgeted
    \/ setLoaded(TRUE) /\ Unbudgeted
    \/ \E layers \in Catalogs : setDynamicLayers(layers) /\ Unbudgeted
    \/ \E id \in Ids : toggleDynamicLayer(id) /\ Unbudgeted
    \/ \E results \in SearchResultLists : setSearchResults(results) /\ Unbudgeted
    \/ \E result \in ResultGeometries \cup {Null} :
          selectSearchResult(result) /\ Unbudgeted
    \/ clearSearchResults /\ Unbudgeted
    \/ addCoordinateMarker /\ Unbudgeted
    \/ clearCoordinateMarker /\ Unbudgeted
    \/ RunTimer /\ Unbudgeted

\* the go-to-coordinates form
SpecCoordinate == Init /\ [][NextCoordinate]_vars

SpecOverlay == Init /\ [][NextOverlay]_vars

\* dynamic layers on either base style: the style follows the stored basemap
\* when the page is loaded again
NextStyle ==
    \/ setMap /\ Unbudgeted
    \/ setLoaded(TRUE) /\ Unbudgeted
    \/ \E layers \in Catalogs : setDynamicLayers(layers) /\ Unbudgeted
    \/ \E id \in Ids : toggleDynamicLayer(id) /\ Unbudgeted
    \/ \E basemapId \in BasemapIds : setBasemap(basemapId) /\ Unbudgeted
    \/ RunTimer /\ Unbudgeted
    \/ Reload /\ Unbudgeted

SpecStyle == Init /\ [][NextStyle]_vars

\* the viewport: camera moves in time and the debounced write-back
NextViewport ==
    \/ setMap /\ UNCHANGED <<calls, query, boot, clock, catalog, layerQuery, coordinate, panel, feature>>
    \/ Tick /\ UNCHANGED <<storeVars, calls, query, boot, catalog, layerQuery, coordinate, panel, feature>>
    \/ \E camera \in Cameras : MoveAt(camera) /\ UNCHANGED <<calls, query, boot, catalog, layerQuery, coordinate, panel, feature>>
    \/ \E styleLoaded \in BOOLEAN :
          MoveTimeoutFiresAt(styleLoaded) /\ UNCHANGED <<calls, query, boot, catalog, layerQuery, coordinate, panel, feature>>

SpecViewport == Init /\ [][NextViewport]_vars

\* initialisation of the module on every stored content
InitBoot ==
    /\ StoreInit
    /\ calls = 0
    /\ query = [phase |-> "idle"]
    /\ \E raw \in StoredContents : boot = Stored(raw)
    /\ clock = NoClock
    /\ catalog = NoCatalog
    /\ layerQuery = [phase |-> "idle"]
    /\ coordinate = NoCoordinate
    /\ panel = NoPanel
    /\ feature = NoFeature

NextBoot == LoadModule /\ UNCHANGED <<storeVars, calls, query, clock, catalog, layerQuery, coordinate, panel, feature>>

SpecBoot == InitBoot /\ [][NextBoot]_vars

\* listService: calls, answers in any order, cache clears
CatalogIdle == UNCHANGED <<storeVars, calls, query, boot, clock, layerQuery, coordinate, panel, feature>>

\* the service cache
NextCatalog ==
    \/ \E serviceName \in ServiceNames : fetchMapService(serviceName) /\ CatalogIdle
    \/ \E request \in catalog.pending, answer \in ServiceAnswers :
          ServiceSettles(request, answer) /\ CatalogIdle
    \/ clearCache /\ CatalogIdle

SpecCatalog == Init /\ [][NextCatalog]_vars

\* the field cache and its three callers
NextFields ==
    \/ \E layerId \in Ids, caller \in FieldCallers :
          fetchLayerFields(layerId, caller) /\ CatalogIdle
    \/ \E request \in catalog.pending, answer \in FieldAnswers :
          FieldsSettle(request, answer) /\ CatalogIdle
    \/ catalog.ops < MaxFieldOps /\ clearCache /\ CatalogIdle

SpecFields == Init /\ [][NextFields]_vars

\* the catalog loader: sequential loadAllLayers calls, answers in any order
NextLoader ==
    \/ loadAllLayers /\ CatalogIdle
    \/ \E answer \in ListingAnswers(PublicListings) :
          PublicListingSettles(answer) /\ CatalogIdle
    \/ \E answer \in ListingAnswers(BasemapListings) :
          BasemapListingSettles(answer) /\ CatalogIdle
    \/ \E i \in 1..MaxServices, answer \in ServiceAnswers :
          DescribeSettles(i, answer) /\ CatalogIdle
    \/ clearCache /\ CatalogIdle

SpecLoader == Init /\ [][NextLoader]_vars

\* a public listing long enough for three batches
BatchListings ==
    { [i \in 1..MaxBatchServices |-> Entry(ToString(i), "MapServer")] }

\* a describe request fails or is answered with layers
BatchAnswers ==
    { Answer("network", 0, "", FALSE, FALSE, <<>>),
      Answer("ok", 1, "some", FALSE, FALSE, <<>>) }

\* the catalog loader over a long listing: the batches of loadAllLayers
NextBatches ==
    \/ loadAllLayers /\ CatalogIdle
    \/ \E answer \in ListingAnswers(BatchListings) :
          PublicListingSettles(answer) /\ CatalogIdle
    \/ \E answer \in ListingAnswers(BasemapListings) :
          BasemapListingSettles(answer) /\ CatalogIdle
    \/ \E i \in 1..(MaxBatchServices + 1), answer \in BatchAnswers :
          DescribeSettles(i, answer) /\ CatalogIdle
    \/ BatchDelayElapses /\ CatalogIdle

SpecBatches == Init /\ [][NextBatches]_vars

-----------------------------------------------------------------------------
(* Query engine: the fan-out of searchFeatures and queryFeaturesAtLocation *)

\* layers a caller passes to a query
QueryLayerIds == {"a", "b", "c"}

\* lists of distinct layers
LayerLists ==
    { l \in SeqsUpTo(QueryLayerIds, MaxQueryLayers) :
        \A i, j \in 1..Len(l) : i # j => l[i] # l[j] }

\* the text option of searchFeatures: empty, blank, a term, the term in
\* another case, the term followed by a space
SearchTexts == {"", " ", "hobart", "Hobart", "hobart "}

\* text.trim()
Trim(text) ==
    CASE text = " " -> ""
      [] text = "hobart " -> "hobart"
      [] OTHER -> text

\* text.toLowerCase()
ToLowerCase(text) == IF text = "Hobart" THEN "hobart" ELSE text

\* display names remote features carry, in localeCompare order of their
\* lower-cased form
LowerNames == <<"ahobart", "hobart", "hobart creek">>
NameRank(lower) == CHOOSE i \in 1..Len(LowerNames) : LowerNames[i] = lower
\* aName.startsWith(searchTerm)
StartsWith(lower, term) ==
    \/ term = ""
    \/ term = "hobart" /\ lower \in {"hobart", "hobart creek"}
    \/ term = "hobart " /\ lower = "hobart creek"

LayerIndex(layerId) == CASE layerId = "a" -> 0 [] layerId = "b" -> 1 [] OTHER -> 2

\* the k-th feature a layer returns: its display name (lower-cased) and the
\* distance of its geometry from the click point (-1: no Point geometry)
RemoteFeature(layerId, k) ==
    [ layerId |-> layerId,
      oid |-> k,
      name |-> LowerNames[((LayerIndex(layerId) + k) % Len(LowerNames)) + 1],
      distance |-> IF (LayerIndex(layerId) + k) % 2 = 0
                   THEN -1
                   ELSE (3 * LayerIndex(layerId) + 2 * k) % 5 ]

\* data.features of a successful response with n features
RemoteFeatures(layerId, n) == [k \in 1..n |-> RemoteFeature(layerId, k)]

\* ways a per-layer request fails
FailureCauses(kind) ==
    IF kind = "search"
    THEN {"network", "http", "errorPayload", "noFeatures"}
    ELSE {"network", "http", "errorPayload"}

Inflight == [status |-> "inflight", cause |-> "", features |-> <<>>]
Fulfilled(features) == [status |-> "fulfilled", cause |-> "", features |-> features]
Rejected(cause) == [status |-> "rejected", cause |-> cause, features |-> <<>>]

\* the comparator of results.sort in searchFeatures
SearchCompare(a, b, searchTerm) ==
    IF a.name = searchTerm /\ b.name # searchTerm THEN -1
    ELSE IF b.name = searchTerm /\ a.name # searchTerm THEN 1
    ELSE IF StartsWith(a.name, searchTerm) /\ ~StartsWith(b.name, searchTerm) THEN -1
    ELSE IF StartsWith(b.name, searchTerm) /\ ~StartsWith(a.name, searchTerm) THEN 1
    ELSE NameRank(a.name) - NameRank(b.name)

\* the comparator of results.sort in queryFeaturesAtLocation
\* (layer names compare as the layer ids do)
ClickCompare(a, b) ==
    IF a.distance # -1 /\ b.distance # -1 THEN a.distance - b.distance
    ELSE IF a.layerId # b.layerId THEN LayerIndex(a.layerId) - LayerIndex(b.layerId)
    ELSE NameRank(a.name) - NameRank(b.name)

Compare(q, a, b) ==
    IF q.kind = "search"
    THEN SearchCompare(a, b, ToLowerCase(q.text))
    ELSE ClickCompare(a, b)

\* Array.prototype.sort on a short array: stable insertion of each element
RECURSIVE InsertSorted(_, _, _)
InsertSorted(q, sorted, x) ==
    IF sorted = <<>> THEN <<x>>
    ELSE IF Compare(q, sorted[Len(sorted)], x) > 0
         THEN Append(InsertSorted(q, SubSeq(sorted, 1, Len(sorted) - 1), x),
                     sorted[Len(sorted)])
         ELSE Append(sorted, x)

RECURSIVE SortResults(_, _)
SortResults(q, results) ==
    IF results = <<>> THEN <<>>
    ELSE InsertSorted(q, SortResults(q, SubSeq(results, 1, Len(results) - 1)),
                      results[Len(results)])

\* mutant: a failing layer voids the results of the layers listed before it
RECURSIVE PartitionFailFast(_, _, _)
PartitionFailFast(layers, outcomes, i) ==
    IF i > Len(layers) THEN [results |-> <<>>, errors |-> <<>>]
    ELSE LET rest == PartitionFailFast(layers, outcomes, i + 1)
         IN  IF outcomes[i].status = "fulfilled"
             THEN [rest EXCEPT !.results =
                      IF rest.errors = <<>> THEN outcomes[i].features \o @ ELSE @]
             ELSE [rest EXCEPT !.errors =
                      <<[layerId |-> layers[i], error |-> outcomes[i].cause]>> \o @]

\* layerResults.forEach: fulfilled values are pushed to results, rejected
\* ones to errors, in the order of the layer list
RECURSIVE Partition(_, _, _)
Partition(layers, outcomes, i) ==
    IF i > Len(layers) THEN [results |-> <<>>, errors |-> <<>>]
    ELSE LET rest == Partition(layers, outcomes, i + 1)
         IN  IF outcomes[i].status = "fulfilled"
             THEN [rest EXCEPT !.results = outcomes[i].features \o @]
             ELSE [rest EXCEPT !.errors =
                      <<[layerId |-> layers[i], error |-> outcomes[i].cause]>> \o @]

\* mutant: the cap is one short
SliceExclusive(results, n) == SubSeq(results, 1, Min(n - 1, Len(results)))

\* results.slice(0, n)
Slice(results, n) == SubSeq(results, 1, Min(n, Len(results)))

\* the response built once Promise.allSettled has resolved
SettledResponse(q) ==
    LET parts == Partition(q.layers, q.outcomes, 1)
        sorted == SortResults(q, parts.results)
    IN  [ resolved |-> TRUE,
          results |-> Slice(sorted, q.maxResults * Len(q.layers)),
          totalCount |-> Len(parts.results),
          hasMore |-> Len(parts.results) > Len(sorted),
          errors |-> parts.errors ]

EmptyResponse ==
    [resolved |-> TRUE, results |-> <<>>, totalCount |-> 0, hasMore |-> FALSE,
     errors |-> <<>>]

\* a query between its call and its response
PendingQuery(kind, layers, text, where, maxResults) ==
    [ phase |-> "pending", kind |-> kind, layers |-> layers, text |-> text,
      where |-> where, maxResults |-> maxResults,
      outcomes |-> [i \in 1..Len(layers) |-> Inflight],
      response |-> EmptyResponse ]

\* mutant: the requests are made whatever the input
ShortCircuitedIntoRequests(kind, layers, text, where, maxResults) ==
    PendingQuery(kind, layers, text, where, maxResults)

\* a query answered before any request is made
ShortCircuited(kind, layers, text, where, maxResults) ==
    [ phase |-> "settled", kind |-> kind, layers |-> layers, text |-> text,
      where |-> where, maxResults |-> maxResults,
      outcomes |-> <<>>, response |-> EmptyResponse ]

\* searchFeatures(layers, {text, where, maxResults}) up to the await;
\* where tells whether a filter clause was passed
searchFeatures(layers, text, where, maxResults) ==
    /\ query.phase = "idle"
    /\ query' = IF Trim(text) = "" /\ ~where
                THEN ShortCircuited("search", layers, text, where, maxResults)
                ELSE PendingQuery("search", layers, text, where, maxResults)

\* queryFeaturesAtLocation(layers, {geometry, maxResults}) up to the await
queryFeaturesAtLocation(layers, maxResults) ==
    /\ query.phase = "idle"
    /\ query' = IF Len(layers) = 0
                THEN ShortCircuited("click", layers, "", FALSE, maxResults)
                ELSE PendingQuery("click", layers, "", FALSE, maxResults)

\* the request of layer i succeeds with n features
LayerFulfils(i, n) ==
    /\ query.phase = "pending"
    /\ i \in 1..Len(query.layers)
    /\ query.outcomes[i].status = "inflight"
    /\ query' = [query EXCEPT !.outcomes[i] =
                    Fulfilled(RemoteFeatures(query.layers[i], n))]

\* the request of layer i fails
LayerRejects(i, cause) ==
    /\ query.phase = "pending"
    /\ i \in 1..Len(query.layers)
    /\ query.outcomes[i].status = "inflight"
    /\ cause \in FailureCauses(query.kind)
    /\ query' = [query EXCEPT !.outcomes[i] = Rejected(cause)]

\* every per-layer promise has settled: the continuation of the await runs
AllSettled ==
    /\ query.phase = "pending"
    /\ \A i \in 1..Len(query.layers) : query.outcomes[i].status # "inflight"
    /\ query' = [query EXCEPT !.phase = "settled", !.response = SettledResponse(query)]

NoQuery ==
    [ phase |-> "idle", kind |-> "", layers |-> <<>>, text |-> "", where |-> FALSE,
      maxResults |-> 0, outcomes |-> <<>>, response |-> EmptyResponse ]

InitQuery ==
    /\ StoreInit
    /\ calls = 0
    /\ query = NoQuery
    /\ boot = NoBoot
    /\ clock = NoClock
    /\ catalog = NoCatalog
    /\ layerQuery = [phase |-> "idle"]
    /\ coordinate = NoCoordinate
    /\ panel = NoPanel
    /\ feature = NoFeature

\* a query leaves the store alone
StoreIdle == UNCHANGED <<storeVars, calls, boot, clock, catalog, layerQuery, coordinate, panel, feature>>

NextQuery ==
    \/ \E layers \in LayerLists, text \in SearchTexts, where \in BOOLEAN,
          maxResults \in 1..MaxResultsOption :
          searchFeatures(layers, text, where, maxResults) /\ StoreIdle
    \/ \E layers \in LayerLists, maxResults \in 1..MaxResultsOption :
          queryFeaturesAtLocation(layers, maxResults) /\ StoreIdle
    \/ \E i \in 1..MaxQueryLayers, n \in 0..(MaxResultsOption + MaxOverReturn) :
          n <= query.maxResults + MaxOverReturn /\ LayerFulfils(i, n) /\ StoreIdle
    \/ \E i \in 1..MaxQueryLayers,
          cause \in {"network", "http", "errorPayload", "noFeatures"} :
          LayerRejects(i, cause) /\ StoreIdle
    \/ AllSettled /\ StoreIdle

SpecQuery == InitQuery /\ [][NextQuery]_vars

-----------------------------------------------------------------------------
(* Query engine: the request of one layer and what becomes of its answer *)

\* the text a caller searches for: none, a word, a number, a number
\* followed by a letter
LayerTexts == {"", "hobart", "12", "12a"}

\* parseFloat(searchTerm): the longest numeric prefix, or NaN
ParseFloat(text) ==
    IF text \in {"12", "12a"}
    THEN [nan |-> FALSE, value |-> 12]
    ELSE [nan |-> TRUE, value |-> 0]

\* the fields fetchLayerFields may return for the layer
Field(name, type) == [name |-> name, type |-> type]

FieldLists ==
    { <<>>,
      <<Field("NAME", "esriFieldTypeString")>>,
      <<Field("NUM", "esriFieldTypeInteger"), Field("DATE", "esriFieldTypeDate")>>,
      <<Field("DATE", "esriFieldTypeDate")>>,
      <<Field("NAME", "esriFieldTypeString"), Field("NUM", "esriFieldTypeInteger"),
        Field("DATE", "esriFieldTypeDate")>> }

\* what getLayerSearchableFields may return for the layer
Selections == SUBSET {"NAME", "NUM", "DATE"}

SearchableTypes ==
    { "esriFieldTypeString", "esriFieldTypeOID", "esriFieldTypeInteger",
      "esriFieldTypeSmallInteger", "esriFieldTypeDouble", "esriFieldTypeSingle" }

\* a where clause: '1=1' (all), or the OR of a LIKE test on the fields of
\* like and an equality test with number on the fields of equals; custom
\* tells that the caller's own filter is sent, alone or ANDed to the rest
Clause(all, like, equals, number, custom) ==
    [all |-> all, like |-> like, equals |-> equals, number |-> number,
     custom |-> custom]

AllFeatures == Clause(TRUE, {}, {}, 0, FALSE)

\* the body of both clause builders; selectedFieldNames undefined is
\* selecting = FALSE
FieldSearch(fields, searchTerm, selecting, selectedFieldNames) ==
    IF searchTerm = "" \/ Len(fields) = 0
    THEN AllFeatures
    ELSE LET searchableFields ==
                 { fields[i] : i \in { j \in 1..Len(fields) :
                      /\ fields[j].type \in SearchableTypes
                      /\ (~selecting \/ fields[j].name \in selectedFieldNames) } }
             like == { f.name : f \in { g \in searchableFields :
                                          g.type = "esriFieldTypeString" } }
             numericValue == ParseFloat(searchTerm)
             equals == IF numericValue.nan
                       THEN {}
                       ELSE { f.name : f \in { g \in searchableFields :
                                                 g.type # "esriFieldTypeString" } }
         IN  IF like \cup equals = {}
             THEN AllFeatures
             ELSE Clause(FALSE, like, equals, numericValue.value, FALSE)

buildCaseInsensitiveFieldSearch(fields, searchTerm, selectedFieldNames) ==
    FieldSearch(fields, searchTerm, selectedFieldNames # {}, selectedFieldNames)

buildCaseInsensitiveWhereClause(fields, searchTerm) ==
    FieldSearch(fields, searchTerm, FALSE, {})

\* the parameters of a feature request that the model follows
Params(hasText, text, hasWhere, where, allFields, outFields) ==
    [ hasText |-> hasText, text |-> text, hasWhere |-> hasWhere, where |-> where,
      allFields |-> allFields, outFields |-> outFields ]

\* mutant: the text parameter is never sent
SearchParamsWithoutText(text, where, fields, selectedFields) ==
    Params(FALSE, "", where, IF where THEN Clause(FALSE, {}, {}, 0, TRUE) ELSE AllFeatures,
           TRUE, {})

\* the parameters searchLayerFeatures builds; where tells whether the caller
\* passed a filter of its own
SearchParams(text, where, fields, selectedFields) ==
    LET byFields == text # "" /\ Len(fields) > 0
        built == IF byFields
                 THEN buildCaseInsensitiveFieldSearch(fields, text, selectedFields)
                 ELSE AllFeatures
        whereClause == IF where
                       THEN IF byFields
                            THEN [built EXCEPT !.custom = TRUE]
                            ELSE Clause(FALSE, {}, {}, 0, TRUE)
                       ELSE built
    IN  Params(~byFields /\ text # "", IF ~byFields THEN text ELSE "",
               whereClause # AllFeatures \/ where, whereClause, TRUE, {})

\* the parameters queryLayerAtLocation builds
ClickParams(searchText, fields) ==
    Params(FALSE, "", TRUE, buildCaseInsensitiveWhereClause(fields, searchText),
           Len(fields) = 0, { fields[i].name : i \in 1..Len(fields) })

\* the error member of a response body
ErrorMember(present, message, detail, code) ==
    [present |-> present, message |-> message, detail |-> detail, code |-> code]

NoErrorMember == ErrorMember(FALSE, "", "", 0)

ErrorMembers ==
    { ErrorMember(TRUE, "Invalid or missing input parameters.", "", 400),
      ErrorMember(TRUE, "", "Unable to perform query.", 500),
      ErrorMember(TRUE, "", "", 0) }

\* what the remote host answers to a feature request: a failed transport,
\* or a body with or without an error member and with or without n features;
\* notExceeded is data.exceededTransferLimit === false
FeatureAnswer(transport, error, hasFeatures, n, notExceeded) ==
    [ transport |-> transport, error |-> error, hasFeatures |-> hasFeatures,
      n |-> n, notExceeded |-> notExceeded ]

FeatureAnswers ==
    { FeatureAnswer(t, NoErrorMember, FALSE, 0, FALSE) : t \in {"network", "http"} }
        \cup { FeatureAnswer("ok", e, FALSE, 0, FALSE) : e \in ErrorMembers }
        \cup { FeatureAnswer("ok", e, TRUE, n, FALSE) :
                 e \in ErrorMembers \cup {NoErrorMember}, n \in 0..MaxResultsOption }
        \cup { FeatureAnswer("ok", NoErrorMember, FALSE, 0, l) : l \in BOOLEAN }

\* the message of a thrown Error: a fixed part and a part taken from the answer
Message(fixed, taken) == [fixed |-> fixed, taken |-> taken]

\* data.error.message || data.error.details?.[0] || fallback
ErrorMsg(error, fallback) ==
    IF error.message # "" THEN error.message
    ELSE IF error.detail # "" THEN error.detail
    ELSE fallback

\* mutant: the body of a 2xx answer is not inspected for an error member
LayerOutcomeUninspected(kind, layerId, answer) ==
    IF answer.transport # "ok"
    THEN Rejected(Message("Query failed", answer.transport))
    ELSE Fulfilled(RemoteFeatures(layerId, answer.n))

\* the promise of searchLayerFeatures (kind "search") or queryLayerAtLocation
\* (kind "click") once the answer is in
LayerOutcome(kind, layerId, answer) ==
    IF answer.transport = "network"
    THEN Rejected(Message("Network error when querying", ""))
    ELSE IF answer.transport = "http"
    THEN Rejected(Message("Query failed", "statusText"))
    ELSE IF answer.error.present
    THEN IF kind = "click" /\ answer.error.code = 400
         THEN Rejected(Message("layer name: Layer may not support spatial queries", ""))
         ELSE Rejected(Message("layer name: ",
                               ErrorMsg(answer.error,
                                        IF kind = "click"
                                        THEN "Query error (HTTP unknown)"
                                        ELSE "Query error")))
    ELSE IF kind = "search" /\ ~answer.hasFeatures /\ answer.notExceeded
    THEN Rejected(Message("Layer may not support text search", ""))
    ELSE Fulfilled(RemoteFeatures(layerId, IF answer.hasFeatures THEN answer.n ELSE 0))

\* the layer the model follows
QueriedLayer == "a"

NoLayerQuery ==
    [ phase |-> "idle", kind |-> "", text |-> "", where |-> FALSE,
      selectedFields |-> {}, fieldsFailed |-> FALSE, fields |-> <<>>,
      params |-> Params(FALSE, "", FALSE, AllFeatures, TRUE, {}),
      answer |-> FeatureAnswer("", NoErrorMember, FALSE, 0, FALSE),
      outcome |-> Inflight,
      response |-> EmptyResponse ]

\* searchLayerFeatures up to the await of fetchLayerFields; searchFeatures
\* passes the trimmed text and calls only with a text or a filter
searchLayerFeatures(text, where, selectedFields) ==
    /\ layerQuery.phase = "idle"
    /\ text # "" \/ where
    /\ layerQuery' = [NoLayerQuery EXCEPT !.phase = "fields", !.kind = "search",
                                          !.text = text, !.where = where,
                                          !.selectedFields = selectedFields]

\* queryLayerAtLocation up to the await of fetchLayerFields
queryLayerAtLocation(searchText) ==
    /\ layerQuery.phase = "idle"
    /\ layerQuery' = [NoLayerQuery EXCEPT !.phase = "fields", !.kind = "click",
                                          !.text = searchText]

\* fetchLayerFields has settled (its cache is followed in SpecFields): the
\* catch leaves fields empty when it rejected, and the request is built and sent
FieldsSettled(failed, fields) ==
    /\ layerQuery.phase = "fields"
    /\ failed => fields = <<>>
    /\ layerQuery' =
         [layerQuery EXCEPT
            !.phase = "sent",
            !.fieldsFailed = failed,
            !.fields = fields,
            !.params = IF layerQuery.kind = "search"
                       THEN SearchParams(layerQuery.text, layerQuery.where, fields,
                                         layerQuery.selectedFields)
                       ELSE ClickParams(layerQuery.text, fields)]

\* the feature request is answered, the promise of the layer settles and the
\* caller builds its response from it
FeaturesAnswered(answer) ==
    /\ layerQuery.phase = "sent"
    /\ LET outcome == LayerOutcome(layerQuery.kind, QueriedLayer, answer)
       IN  layerQuery' =
             [layerQuery EXCEPT
                !.phase = "settled",
                !.answer = answer,
                !.outcome = outcome,
                !.response =
                    SettledResponse([ kind |-> layerQuery.kind,
                                      text |-> layerQuery.text,
                                      layers |-> <<QueriedLayer>>,
                                      maxResults |-> MaxResultsOption,
                                      outcomes |-> <<outcome>> ])]

InitLayerQuery ==
    /\ StoreInit
    /\ calls = 0
    /\ query = NoQuery
    /\ boot = NoBoot
    /\ clock = NoClock
    /\ catalog = NoCatalog
    /\ layerQuery = NoLayerQuery
    /\ coordinate = NoCoordinate
    /\ panel = NoPanel
    /\ feature = NoFeature

LayerQueryIdle == UNCHANGED <<storeVars, calls, query, boot, clock, catalog, coordinate, panel, feature>>

NextLayerQuery ==
    \/ \E text \in LayerTexts, where \in BOOLEAN, selectedFields \in Selections :
          searchLayerFeatures(text, where, selectedFields) /\ LayerQueryIdle
    \/ \E searchText \in LayerTexts :
          queryLayerAtLocation(searchText) /\ LayerQueryIdle
    \/ \E failed \in BOOLEAN, fields \in FieldLists :
          FieldsSettled(failed, fields) /\ LayerQueryIdle
    \/ \E answer \in FeatureAnswers :
          FeaturesAnswered(answer) /\ LayerQueryIdle

SpecLayerQuery == InitLayerQuery /\ [][NextLayerQuery]_vars

-----------------------------------------------------------------------------
(* The features of one answer: processFeatureResult and processGeometry *)

\* a number with its fraction in millionths
Num(whole, millionths) == [whole |-> whole, millionths |-> millionths]

\* an attribute is absent (<<>>) or carries a number (<<n>>)
ObjectIds == {<<>>, <<0>>, <<1>>, <<2>>}

Attributes(OBJECTID, FID, ID) == [OBJECTID |-> OBJECTID, FID |-> FID, ID |-> ID]

\* feature.geometry: none, a point, a path list, a ring list (of the one
\* vertex x, y), or an object of another shape
Geometry(kind, x, y) == [kind |-> kind, x |-> x, y |-> y]

\* x and y of a point: around the limits of the geographic range, and in metres
PointXs == {-181, -180, 147, 180, 181, 16400000}
PointYs == {-5200000, -91, -90, -42, 90, 91}

RawGeometries ==
    { Geometry("point", x, y) : x \in PointXs, y \in PointYs }
        \cup { Geometry(k, 147, -42) : k \in {"none", "paths", "rings", "other"} }

RawFeature(attributes, geometry) == [attributes |-> attributes, geometry |-> geometry]

\* the features of an answer: every attribute pattern, and every geometry
RawFeatures ==
    { RawFeature(Attributes(o, f, <<>>), Geometry("none", 147, -42)) :
        o \in ObjectIds, f \in {<<>>, <<2>>} }
      \cup { RawFeature(Attributes(<<1>>, <<>>, <<>>), g) : g \in RawGeometries }

\* layers whose answers are mapped
FeatureLayerIds == {"Roads_1", "Roads_1_0"}

\* a || b on attributes: undefined and 0 are falsy
Or(a, b) == IF a = <<>> \/ a[1] = 0 THEN b ELSE a

Abs(n) == IF n < 0 THEN 0 - n ELSE n

\* (x / 20037508.34) * 180 at the sampled x, rounded to millionths
Longitude(x) ==
    CASE x = -181 -> Num(0, -1626)
      [] x = -180 -> Num(0, -1617)
      [] x = 147 -> Num(0, 1321)
      [] x = 180 -> Num(0, 1617)
      [] x = 181 -> Num(0, 1626)
      [] x = 16400000 -> Num(147, 323707)

\* (Math.atan(Math.exp((y / 20037508.34) * Math.PI)) * 360) / Math.PI - 90 at
\* the sampled y, rounded to millionths
Latitude(y) ==
    CASE y = -5200000 -> Num(-42, -259959)
      [] y = -91 -> Num(0, -817)
      [] y = -90 -> Num(0, -808)
      [] y = -42 -> Num(0, -377)
      [] y = 90 -> Num(0, 808)
      [] y = 91 -> Num(0, 817)

Processed(type, cx, cy) == [type |-> type, coordinates |-> <<cx, cy>>]

\* geometry: undefined
Undefined == Processed("undefined", Num(0, 0), Num(0, 0))

\* mutant: converted only when both coordinates are out of range
processGeometryBothOutOfRange(geometry) ==
    IF geometry.kind = "point"
    THEN IF Abs(geometry.x) > 180 /\ Abs(geometry.y) > 90
         THEN Processed("Point", Longitude(geometry.x), Latitude(geometry.y))
         ELSE Processed("Point", Num(geometry.x, 0), Num(geometry.y, 0))
    ELSE IF geometry.kind = "paths"
    THEN Processed("Polyline", Num(geometry.x, 0), Num(geometry.y, 0))
    ELSE IF geometry.kind = "rings"
    THEN Processed("Polygon", Num(geometry.x, 0), Num(geometry.y, 0))
    ELSE Undefined

\* processGeometry(geometry)
processGeometry(geometry) ==
    IF geometry.kind = "none"
    THEN Undefined
    ELSE IF geometry.kind = "point"
    THEN IF Abs(geometry.x) > 180 \/ Abs(geometry.y) > 90
         THEN Processed("Point", Longitude(geometry.x), Latitude(geometry.y))
         ELSE Processed("Point", Num(geometry.x, 0), Num(geometry.y, 0))
    ELSE IF geometry.kind = "paths"
    THEN Processed("Polyline", Num(geometry.x, 0), Num(geometry.y, 0))
    ELSE IF geometry.kind = "rings"
    THEN Processed("Polygon", Num(geometry.x, 0), Num(geometry.y, 0))
    ELSE Undefined

\* processFeatureResult(feature, layer, index): the id and the geometry
processFeatureResult(raw, layer, index) ==
    LET attributes == raw.attributes
        key == Or(attributes.OBJECTID, Or(attributes.FID, Or(attributes.ID, <<index>>)))
    IN  [ id |-> layer \o "_" \o ToString(key[1]),
          layerId |-> layer,
          geometry |-> IF raw.geometry.kind # "none"
                       THEN processGeometry(raw.geometry)
                       ELSE Undefined ]

\* data.features.map((feature, index) => processFeatureResult(feature, layer, index))
FeaturesMapped(layer, features) ==
    feature' = [ layer |-> layer,
                 features |-> features,
                 results |-> [ i \in 1..Len(features) |->
                                 processFeatureResult(features[i], layer, i - 1) ] ]

FeatureIdle ==
    UNCHANGED <<storeVars, calls, query, boot, clock, catalog, layerQuery,
                coordinate, panel>>

NextFeature ==
    /\ feature = NoFeature
    /\ \E layer \in FeatureLayerIds, n \in 0..MaxFeatures :
         \E features \in [1..n -> RawFeatures] :
            FeaturesMapped(layer, features) /\ FeatureIdle

SpecFeature == Init /\ [][NextFeature]_vars

-----------------------------------------------------------------------------
(* The search box of AppHeader and the click handler of the map page *)

\* searches issued in one behaviour of the search box, clicks accepted in one
\* of the click handler, and both taken together where both are followed
MaxSearches == 2
MaxClicks == 3
MaxHandlerCalls == 1

\* the text of the search box
PanelTexts == {" ", "hobart"}

\* the active catalogued layers when a handler runs
ActiveLayerLists == { <<>>, <<"a">>, <<"a", "b">> }

\* handleSearchInput: debouncedSearch(searchQuery) clears the timer and sets it anew
handleSearchInput(searchQuery) ==
    panel' = [panel EXCEPT !.event = "handleSearchInput", !.timeoutId = <<searchQuery>>]

\* clearSearch()
clearSearch(p) ==
    [p EXCEPT !.searchResults = NoResults, !.searchError = "",
              !.showResults = FALSE, !.isSearching = FALSE]

\* performSearch(query) up to its await; activeLayersList is read from the store
performSearch(p, searchQuery, activeLayersList) ==
    IF Trim(searchQuery) = ""
    THEN [clearSearch(p) EXCEPT !.event = "searchBlank"]
    ELSE IF Len(activeLayersList) = 0
    THEN [p EXCEPT !.event = "searchNoLayers",
                   !.searchError = "No active layers to search. Please enable some feature layers first.",
                   !.searchResults = NoResults,
                   !.showResults = TRUE,
                   !.isSearching = FALSE]
    ELSE [p EXCEPT !.event = "searchIssued",
                   !.isSearching = TRUE,
                   !.searchError = "",
                   !.showResults = TRUE,
                   !.issued = @ + 1,
                   !.searches = Append(@, [of |-> p.issued + 1, text |-> searchQuery]),
                   !.requests = @ + Len(activeLayersList)]

\* the debounce timer fires: callback(query)
SearchTimeoutFires(activeLayersList) ==
    /\ panel.timeoutId # <<>>
    /\ panel' = performSearch([panel EXCEPT !.timeoutId = <<>>],
                              panel.timeoutId[1], activeLayersList)

Without(seq, i) == SubSeq(seq, 1, i - 1) \o SubSeq(seq, i + 1, Len(seq))

\* mutant: the response of a superseded search is dropped
ContinueSearchIfLatest(p, i, n, errors) ==
    IF p.searches[i].of # p.issued
    THEN [p EXCEPT !.event = "searchResolved", !.searches = Without(@, i)]
    ELSE [p EXCEPT !.event = "searchResolved", !.searches = Without(@, i),
                   !.searchResults = Shown(p.searches[i].of, n),
                   !.isSearching = FALSE]

\* performSearch after its await: the response of call i has n results and
\* errors tells whether it lists layer errors
ContinueSearch(p, i, n, errors) ==
    [p EXCEPT !.event = "searchResolved",
              !.searches = Without(@, i),
              !.searchResults = Shown(p.searches[i].of, n),
              !.isSearching = FALSE,
              !.searchError =
                  IF errors /\ n = 0 THEN "Search errors"
                  ELSE IF n = 0 THEN "No features found matching your search."
                  ELSE @]

SearchResolves(i, n, errors) ==
    /\ i \in 1..Len(panel.searches)
    /\ panel' = ContinueSearch(panel, i, n, errors)

\* handleMapClick past its guard, up to its await
AcceptClick(p, activeLayers) ==
    IF Len(activeLayers) = 0
    THEN [p EXCEPT !.event = "clickNoLayers",
                   !.accepted = @ + 1,
                   !.clickQueryError = "No active layers to query",
                   !.clickQueryResults = Shown(p.accepted + 1, 0)]
    ELSE [p EXCEPT !.event = "clickIssued",
                   !.accepted = @ + 1,
                   !.clickQueryError = "",
                   !.clickQueryLoading = TRUE,
                   !.clickQueries = @ \cup {p.accepted + 1},
                   !.requests = @ + Len(activeLayers)]

\* mutant: a click is accepted while a click query is in flight
handleMapClickUnguarded(activeLayers) ==
    panel' = AcceptClick(panel, activeLayers)

\* handleMapClick(event); the event comes from the map, so there is one
handleMapClick(activeLayers) ==
    panel' = IF panel.clickQueryLoading
                THEN [panel EXCEPT !.event = "clickIgnored"]
                ELSE AcceptClick(panel, activeLayers)

\* handleMapClick after its await: the query of click c resolved with n
\* results, or it rejected; finally the flag is cleared
ClickResolves(c, n, errors, rejected) ==
    /\ c \in panel.clickQueries
    /\ rejected => n = 0 /\ ~errors
    /\ panel' = [panel EXCEPT
                    !.event = "clickResolved",
                    !.clickQueries = @ \ {c},
                    !.clickQueryResults = Shown(c, n),
                    !.clickQueryError =
                        IF rejected THEN "Failed to query features"
                        ELSE IF errors THEN "Some layers failed"
                        ELSE "",
                    !.clickQueryLoading = FALSE]

\* the results panel is cleared: mapStore.clearClickQueryResults()
clearClickQueryResults ==
    /\ panel.clickQueryResults # NoResults
    /\ panel' = [panel EXCEPT !.event = "clickResultsCleared",
                              !.clickQueryResults = NoResults]

PanelIdle ==
    UNCHANGED <<storeVars, calls, query, boot, clock, catalog, layerQuery, coordinate, feature>>

\* the search box alone
NextSearchBox ==
    \/ \E searchQuery \in PanelTexts : handleSearchInput(searchQuery) /\ PanelIdle
    \/ \E layers \in ActiveLayerLists :
          panel.issued < MaxSearches /\ SearchTimeoutFires(layers) /\ PanelIdle
    \/ \E i \in 1..MaxSearches, n \in 0..1, errors \in BOOLEAN :
          SearchResolves(i, n, errors) /\ PanelIdle

SpecSearchBox == InitQuery /\ [][NextSearchBox]_vars

\* the click handler alone
NextClick ==
    \/ \E layers \in ActiveLayerLists :
          panel.accepted < MaxClicks /\ handleMapClick(layers) /\ PanelIdle
    \/ \E c \in 1..MaxClicks, n \in 0..1, errors, rejected \in BOOLEAN :
          ClickResolves(c, n, errors, rejected) /\ PanelIdle
    \/ clearClickQueryResults /\ PanelIdle

SpecClick == InitQuery /\ [][NextClick]_vars

\* both handlers, and the two functions of the query engine called on their
\* own with input that is not valid
NextPanel ==
    \/ \E searchQuery \in PanelTexts : handleSearchInput(searchQuery) /\ PanelIdle
    \/ \E layers \in ActiveLayerLists :
          /\ panel.issued + panel.accepted < MaxHandlerCalls
          /\ SearchTimeoutFires(layers) /\ PanelIdle
    \/ \E i \in 1..MaxHandlerCalls, n \in 0..1, errors \in BOOLEAN :
          SearchResolves(i, n, errors) /\ PanelIdle
    \/ \E layers \in ActiveLayerLists :
          /\ panel.issued + panel.accepted < MaxHandlerCalls
          /\ handleMapClick(layers) /\ PanelIdle
    \/ \E c \in 1..MaxHandlerCalls, n \in 0..1, errors, rejected \in BOOLEAN :
          ClickResolves(c, n, errors, rejected) /\ PanelIdle
    \/ \E layers \in ActiveLayerLists, text \in SearchTexts, where \in BOOLEAN :
          panel = NoPanel /\ searchFeatures(layers, text, where, 1) /\ StoreIdle
    \/ \E layers \in ActiveLayerLists :
          panel = NoPanel /\ queryFeaturesAtLocation(layers, 1) /\ StoreIdle
    \/ \E i \in 1..2, n \in 0..1 : LayerFulfils(i, n) /\ StoreIdle
    \/ \E i \in 1..2 : LayerRejects(i, "network") /\ StoreIdle
    \/ AllSettled /\ StoreIdle

SpecPanel == InitQuery /\ [][NextPanel]_vars

-----------------------------------------------------------------------------
(* Claims about the query engine *)

\* the layers of the settled query whose request failed, and the others
FailedLayers == { i \in 1..Len(query.outcomes) : query.outcomes[i].status = "rejected" }
HealthyLayers == { i \in 1..Len(query.outcomes) : query.outcomes[i].status = "fulfilled" }
HealthyFeatures == UNION { Range(query.outcomes[i].features) : i \in HealthyLayers }

\* one error entry per failing layer, carrying that layer's id, and no other
ErrorsMatchFailures ==
    /\ Len(query.response.errors) = Cardinality(FailedLayers)
    /\ \A i \in FailedLayers :
          Cardinality({ k \in 1..Len(query.response.errors) :
                          query.response.errors[k].layerId = query.layers[i] }) = 1

\* C1 as stated: a query over layers of which any subset F fails resolves, its
\* results hold the features of every layer outside F and none of a layer in
\* F, and its errors hold exactly one entry per layer of F, with that id.
FailuresAreIsolated ==
    query.phase = "settled" =>
        /\ query.response.resolved
        /\ HealthyFeatures \subseteq Range(query.response.results)
        /\ \A f \in Range(query.response.results) :
              \E i \in HealthyLayers : f.layerId = query.layers[i]
        /\ ErrorsMatchFailures

\* C1 amended: the query resolves, its results hold features of layers outside
\* F only, without repetition, and as many of them as the cap maxResults x N
\* admits (all of them when they are no more than the cap), and its errors
\* hold exactly one entry per layer of F, with that id.
FailuresAreIsolatedUpToCap ==
    query.phase = "settled" =>
        /\ query.response.resolved
        /\ Range(query.response.results) \subseteq HealthyFeatures
        /\ Cardinality(Range(query.response.results)) = Len(query.response.results)
        /\ Len(query.response.results) =
              Min(Cardinality(HealthyFeatures), query.maxResults * Len(query.layers))
        /\ ErrorsMatchFailures

\* a settled query in which one layer failed and another returned features
SettledWithPartialFailure ==
    /\ query.phase = "settled"
    /\ FailedLayers # {}
    /\ Cardinality(FailedLayers) < Len(query.layers)
    /\ query.response.results # <<>>
    /\ query.response.errors # <<>>

-----------------------------------------------------------------------------
(* Claims about the session state store *)

ActiveIds(st) == Range(st.activeDynamicLayerIds)

\* C2: dynamicLayerOrder contains each active id exactly once, no inactive
\* id, and its set of elements equals the active-id set.
OrderMatchesActive ==
    /\ Range(mapState.dynamicLayerOrder) = ActiveIds(mapState)
    /\ Len(mapState.dynamicLayerOrder) = Cardinality(ActiveIds(mapState))

\* C3: every id in the active set, the order sequence, the opacity map and
\* the visibility map is a key of the catalog dynamicLayers.
IdsReferToCatalog ==
    (ActiveIds(mapState) \cup Range(mapState.dynamicLayerOrder)
        \cup DOMAIN mapState.dynamicLayerOpacities
        \cup DOMAIN mapState.dynamicLayerVisibilities) \subseteq mapState.dynamicLayers

\* C4: once the surface is attached and loaded, the catalog is set and every
\* deferred task has run, the surface holds a managed layer for exactly the
\* active catalogued ids.
SurfaceIsProjection ==
    (mapState.map /\ mapState.isLoaded /\ mapState.dynamicLayers # {} /\ timers = <<>>)
        => \A id \in Ids :
              getLayer(surface, id)
                  <=> (id \in ActiveIds(mapState) /\ id \in mapState.dynamicLayers)

\* C5: once all deferred tasks have run, the stored snapshot equals the
\* persisted projection of the in-memory state.
StoredSnapshotCurrent ==
    (timers = <<>> /\ ~moveTimeout /\ storage # NoStorage /\ lastOp.op # "reload")
        => storage[1] = PersistedState(mapState)

\* C6: toggleDynamicLayer(id) on a catalogued inactive id activates id, makes
\* it the last element of the order, seeds opacity 0.8 and visibility true
\* only where nothing is stored, and leaves every other entry unchanged.
ActivationAppends ==
    [][ ( /\ lastOp'.op = "toggleDynamicLayer"
          /\ lastOp'.id \in mapState.dynamicLayers
          /\ lastOp'.id \notin ActiveIds(mapState) )
        => LET id == lastOp'.id
               opac == mapState.dynamicLayerOpacities
               vis == mapState.dynamicLayerVisibilities
           IN  /\ ActiveIds(mapState') = ActiveIds(mapState) \cup {id}
               /\ mapState'.dynamicLayerOrder # <<>>
               /\ mapState'.dynamicLayerOrder[Len(mapState'.dynamicLayerOrder)] = id
               /\ mapState'.dynamicLayerOpacities =
                      IF id \in DOMAIN opac THEN opac ELSE MapSet(opac, id, DefaultOpacity)
               /\ mapState'.dynamicLayerVisibilities =
                      IF id \in DOMAIN vis THEN vis ELSE MapSet(vis, id, TRUE)
      ]_vars

ReorderReplacesOrder ==
    [][ lastOp'.op = "reorderDynamicLayers"
        => /\ mapState'.dynamicLayerOrder = lastOp'.seq
           /\ SaveTask \in Range(timers')
      ]_vars

\* C9: setDynamicLayerOpacity(id, v) stores min(1, max(0, v)) for id, a value
\* in [0,1], and a call with the in-range v that is already stored for id
\* leaves the opacity map as it was.
OpacityIsClamped ==
    [][ lastOp'.op = "setDynamicLayerOpacity"
        => LET id == lastOp'.id
               v == lastOp'.num
           IN  /\ id \in DOMAIN mapState'.dynamicLayerOpacities
               /\ mapState'.dynamicLayerOpacities[id] = Min(OpacityScale, Max(0, v))
               /\ mapState'.dynamicLayerOpacities[id] \in 0..OpacityScale
               /\ \A other \in DOMAIN mapState.dynamicLayerOpacities \ {id} :
                     /\ other \in DOMAIN mapState'.dynamicLayerOpacities
                     /\ mapState'.dynamicLayerOpacities[other]
                            = mapState.dynamicLayerOpacities[other]
               /\ ( /\ id \in DOMAIN mapState.dynamicLayerOpacities
                    /\ mapState.dynamicLayerOpacities[id] = v )
                    => mapState'.dynamicLayerOpacities = mapState.dynamicLayerOpacities
      ]_vars

\* a negative opacity has been passed for one layer and stored as 0, after an
\* opacity above 1 was stored as 1 for another
OpacityOutOfRangeStored ==
    /\ lastOp.op = "setDynamicLayerOpacity"
    /\ lastOp.num < 0
    /\ mapState.dynamicLayerOpacities[lastOp.id] = 0
    /\ \E other \in DOMAIN mapState.dynamicLayerOpacities :
          mapState.dynamicLayerOpacities[other] = OpacityScale

\* C10: initialising the store from a saved snapshot yields a state whose
\* persisted projection equals the snapshot.
PersistenceRoundTrips ==
    lastOp.op = "reload" => PersistedState(mapState) = storage[1]

-----------------------------------------------------------------------------
(* Claims about initialisation *)

\* C11: when the stored content is absent, unparseable or of the wrong shape
\* for some field, initialisation raises no exception and every field of the
\* store starts with its default value.
InitialisationTolerates ==
    (boot.phase = "initialised" /\ ~WellFormed(boot.raw))
        => /\ ~boot.threw
           /\ \A f \in PersistedFields : boot.fields[f] = "default"

\* C12: toggleDynamicLayer, reorderDynamicLayers, toggleLayerFavorite,
\* setBasemap and the searchable-field operations change neither the layers
\* and sources of the surface nor the stored snapshot in the step that
\* commits the new state: those effects belong to later tasks.
SideEffectsAreDeferred ==
    [][ lastOp'.op \in { "toggleDynamicLayer", "reorderDynamicLayers",
                         "toggleLayerFavorite", "setBasemap",
                         "setLayerSearchableFields", "toggleFieldSearchable" }
        => /\ surface'.layers = surface.layers
           /\ surface'.sources = surface.sources
           /\ storage' = storage
      ]_vars

\* C13: the viewport is written to the store only by the timer of the 'move'
\* listener, not before 100 ms have passed since the last 'move' event and at
\* most once after it; the write copies the camera into centre, zoom and
\* bearing and is followed by one persistence write of that state; neither
\* the event nor the write-back changes the surface apart from the camera
\* the renderer itself moved.
ViewportSyncIsDebounced ==
    [][ /\ lastOp'.op = "move"
            => /\ UNCHANGED <<mapState, storage>>
               /\ surface'.layers = surface.layers
               /\ surface'.sources = surface.sources
        /\ lastOp'.op = "moveTimeout"
            => /\ clock.lastMoveAt # -1
               /\ clock.now >= clock.lastMoveAt + DebounceDelay
               /\ clock'.writes <= 1
               /\ surface' = surface
               /\ IF lastOp'.flag
                  THEN /\ mapState'.center = surface.camera.center
                       /\ mapState'.zoom = surface.camera.zoom
                       /\ mapState'.bearing = surface.camera.bearing
                       /\ storage' = <<PersistedState(mapState')>>
                  ELSE UNCHANGED <<mapState, storage>>
        /\ (lastOp'.op \notin {"moveTimeout", "setMap"})
            => /\ mapState'.center = mapState.center
               /\ mapState'.zoom = mapState.zoom
               /\ mapState'.bearing = mapState.bearing
      ]_vars

\* a burst of two 'move' events less than 100 ms apart has been written
\* back once, 100 ms or more after the second event
BurstWrittenOnce ==
    /\ lastOp.op = "moveTimeout"
    /\ lastOp.flag
    /\ clock.writes = 1
    /\ clock.lastMoveAt > 0
    /\ clock.lastMoveAt < DebounceDelay
    /\ mapState.zoom = surface.camera.zoom
    /\ storage # NoStorage

ClickResultsByDistance ==
    (query.phase = "settled" /\ query.kind = "click")
        => LET r == query.response.results
           IN  \A i, j \in 1..Len(r) :
                  i < j =>
                     /\ (r[i].distance # -1 /\ r[j].distance # -1)
                            => r[i].distance <= r[j].distance
                     /\ ~(r[i].distance = -1 /\ r[j].distance # -1)
                     /\ (r[i].distance = -1 /\ r[j].distance = -1)
                            => \/ LayerIndex(r[i].layerId) < LayerIndex(r[j].layerId)
                               \/ /\ r[i].layerId = r[j].layerId
                                  /\ NameRank(r[i].name) <= NameRank(r[j].name)

\* the rank class of a display name for a query: 0 equal, 1 prefix, 2 other
RankClass(name, term) ==
    IF name = term THEN 0
    ELSE IF term = "hobart" /\ name = "hobart creek" THEN 1
    ELSE IF term = "" THEN 1
    ELSE 2

\* C16: in the results of searchFeatures, for the case-folded query the
\* layers were searched with, every result whose name equals the query
\* precedes every other, then come the results whose name starts with it,
\* then the rest, each class in alphabetical order of the display name.
SearchResultsRanked ==
    (query.phase = "settled" /\ query.kind = "search")
        => LET r == query.response.results
               term == ToLowerCase(Trim(query.text))
           IN  \A i, j \in 1..Len(r) :
                  i < j =>
                     \/ RankClass(r[i].name, term) < RankClass(r[j].name, term)
                     \/ /\ RankClass(r[i].name, term) = RankClass(r[j].name, term)
                        /\ NameRank(r[i].name) <= NameRank(r[j].name)

\* the merged list of a settled query, ranked
RankedMerge == SortResults(query, Partition(query.layers, query.outcomes, 1).results)

\* C17: a settled query returns at most maxResults x (number of layers
\* queried) results, and they are the first that many elements of the ranked
\* merged list: all of it when it is no longer than the cap.
ResultsAreCappedPrefix ==
    query.phase = "settled"
        => LET r == query.response.results
               cap == query.maxResults * Len(query.layers)
           IN  /\ Len(r) <= cap
               /\ query.outcomes # <<>>
                    => /\ Len(r) = Min(cap, Len(RankedMerge))
                       /\ \A i \in 1..Len(r) : r[i] = RankedMerge[i]

\* a settled query whose ranked merged list was longer than the cap
ResultsTruncated ==
    /\ query.phase = "settled"
    /\ query.outcomes # <<>>
    /\ Len(RankedMerge) > query.maxResults * Len(query.layers)
    /\ Len(query.response.results) = query.maxResults * Len(query.layers)
    /\ Len(query.layers) > 1

\* a step of fetchMapService or fetchLayerFields issued a request for key
Fetched(fn, key, fetches) ==
    /\ fetches[2][key] = fetches[1][key] + 1
    /\ \E request \in catalog'.pending \ catalog.pending :
          request.fn = fn /\ request.key = key

\* C18: fetchMapService is memoized per service name. A call for a name the
\* cache holds, which is every call after a successful one, issues no fetch
\* and returns the descriptor the successful call stored and returned; a call
\* for a name the cache does not hold issues one fetch; a failed call leaves
\* the cache as it was; clearCache empties it, so that the call that follows
\* fetches again.
ServiceIsMemoized ==
    [][ LET r == catalog'.last
            cache == catalog.servicesCache
        IN  (catalog' # catalog /\ r.fn \in {"fetchMapService", "clearCache"}) =>
              /\ r.op = "call" =>
                   IF MapHas(cache, r.key)
                   THEN /\ catalog'.serviceFetches = catalog.serviceFetches
                        /\ catalog'.pending = catalog.pending
                        /\ r.outcome = "cached"
                        /\ r.descriptor = cache[r.key]
                   ELSE Fetched(r.fn, r.key,
                                <<catalog.serviceFetches, catalog'.serviceFetches>>)
              /\ (r.op = "call" /\ catalog.last.op = "clear") =>
                   Fetched(r.fn, r.key, <<catalog.serviceFetches, catalog'.serviceFetches>>)
              /\ r.op = "settle" =>
                   IF ServiceResult(r.key, r.answer).ok
                   THEN /\ r.outcome = "resolved"
                        /\ r.descriptor.serviceName = r.key
                        /\ MapHas(catalog'.servicesCache, r.key)
                        /\ catalog'.servicesCache[r.key] = r.descriptor
                   ELSE /\ r.outcome = "rejected"
                        /\ catalog'.servicesCache = cache
              /\ r.op = "clear" => catalog'.servicesCache = EmptyMap
      ]_vars

\* the second of two sequential calls for a name was served from the cache:
\* one fetch since the last clear, none in flight
ServedFromCache ==
    /\ catalog.last.op = "call"
    /\ catalog.last.fn = "fetchMapService"
    /\ catalog.last.outcome = "cached"
    /\ catalog.serviceFetches[catalog.last.key] = 1
    /\ catalog.pending = {}

\* C19: between two cache clears at most one field request is issued for a
\* layer id, whatever the interleaving of the callers, when every field
\* request for the layer has succeeded.
FieldsFetchedOnce ==
    \A layerId \in Ids :
       ( /\ catalog.fieldFailures[layerId] = 0
         /\ \A request \in catalog.pending :
               ~(request.fn = "fetchLayerFields" /\ request.key = layerId) )
           => catalog.fieldFetches[layerId] <= 1

\* C20: a fetchLayerFields call whose answer is a network error, a non-2xx
\* status or an error payload rejects and leaves the field cache as it was; a
\* call for a layer the cache does not hold issues a request; a call whose
\* answer is good stores the fields it returns.
FieldFailureIsNotCached ==
    [][ LET r == catalog'.last
            cache == catalog.layerFieldsCache
        IN  (catalog' # catalog /\ r.fn = "fetchLayerFields") =>
              /\ (r.op = "call" /\ ~MapHas(cache, r.key)) =>
                   Fetched(r.fn, r.key, <<catalog.fieldFetches, catalog'.fieldFetches>>)
              /\ r.op = "settle" =>
                   IF r.answer.transport \in {"network", "http"} \/ r.answer.error
                   THEN /\ r.outcome = "rejected"
                        /\ catalog'.layerFieldsCache = cache
                        /\ catalog'.layerFields = catalog.layerFields
                   ELSE r.outcome = "resolved" =>
                          /\ MapHas(catalog'.layerFieldsCache, r.key)
                          /\ catalog'.layerFieldsCache[r.key] = r.fields
      ]_vars

\* a field request succeeded after one for the same layer had failed
FieldRetrySucceeded ==
    /\ catalog.last.op = "settle"
    /\ catalog.last.fn = "fetchLayerFields"
    /\ catalog.last.outcome = "resolved"
    /\ catalog.fieldFailures[catalog.last.key] = 1
    /\ catalog.fieldFetches[catalog.last.key] = 2
    /\ MapHas(catalog.layerFieldsCache, catalog.last.key)

\* C21: whatever subset of the describe calls fails, loadAllLayers resolves
\* once every call of the batch has settled, and its result holds the layers
\* of the services that were described, and no others, in discovery order.
DescribeFailuresAreIsolated ==
    LET ld == catalog.load
        names == ld.serviceNames
        r == ld.result
        PlaceOf(name) == CHOOSE i \in 1..Len(names) : names[i] = name
    IN  /\ ld.phase = "rejected" => (ld.public = "failed" \/ ld.basemap = "failed")
        /\ ld.phase = "describing" =>
              \E i \in 1..Len(ld.outcomes) : ld.outcomes[i].state = "pending"
        /\ (ld.phase = "resolved" /\ ld.basemap = "done") =>
              /\ \A p \in 1..Len(r) :
                    \E i \in 1..Len(names) :
                       names[i] = r[p].serviceName /\ ld.outcomes[i].state = "ok"
              /\ \A i \in 1..Len(names) :
                    ld.outcomes[i].state = "ok" =>
                       SelectSeq(r, LAMBDA l : l.serviceName = names[i])
                          = LayersOf(ld.outcomes[i].descriptor)
              /\ \A p, q \in 1..Len(r) :
                    p < q => PlaceOf(r[p].serviceName) <= PlaceOf(r[q].serviceName)

\* a load of three services resolved although the first describe call failed
PartialCatalogLoaded ==
    /\ catalog.load.phase = "resolved"
    /\ Len(catalog.load.outcomes) = 3
    /\ catalog.load.outcomes[1].state = "failed"
    /\ catalog.load.outcomes[2].state = "ok"
    /\ catalog.load.outcomes[3].state = "ok"
    /\ Len(catalog.load.result) >= 2

\* one step of the catalog loader keeps the layer list memoized after a
\* success and only then
MemoStep ==
    LET ld == catalog.load
        after == catalog'.load
    IN  /\ after.calls # ld.calls =>
              IF catalog.allLayersCache # <<>>
              THEN /\ after.phase = "resolved"
                   /\ after.result = catalog.allLayersCache[1]
                   /\ after.requests = 0
              ELSE /\ after.phase = "listing"
                   /\ after.basemap = "pending"
                   /\ (after.public = "pending") = (catalog.servicesListCache = <<>>)
                   /\ after.requests >= 1
        /\ (ld.phase = "describing" /\ after.phase = "resolved") =>
              catalog'.allLayersCache = <<after.result>>
        /\ (ld.phase = "listing" /\ after.phase = "rejected") =>
              /\ catalog'.allLayersCache = <<>>
              /\ catalog'.servicesCache = catalog.servicesCache
        /\ catalog.allLayersCache # <<>> =>
              catalog'.allLayersCache \in {catalog.allLayersCache, <<>>}
        /\ catalog'.ops # catalog.ops => catalog'.allLayersCache = <<>>

NamespaceFailuresAreIsolated ==
    LET ld == catalog.load
    IN  ( \/ ld.public = "failed" /\ ld.basemap = "done"
          \/ ld.basemap = "failed" /\ ld.public \in {"done", "cached"} )
            => ld.phase # "rejected"

-----------------------------------------------------------------------------
(* Claims about the request of one layer *)

\* C24: an answer with a transport-success status whose body carries an
\* error member is the layer's failure, in text search and in click query:
\* no result of the layer, and one entry in errors, for the layer, with a
\* non-empty message.
ErrorPayloadIsLayerFailure ==
    ( /\ layerQuery.phase = "settled"
      /\ layerQuery.answer.transport = "ok"
      /\ layerQuery.answer.error.present )
        => /\ layerQuery.response.results = <<>>
           /\ Len(layerQuery.response.errors) = 1
           /\ layerQuery.response.errors[1].layerId = QueriedLayer
           /\ \/ layerQuery.response.errors[1].error.fixed # ""
              \/ layerQuery.response.errors[1].error.taken # ""

\* a click query was answered with a body that carries features and an
\* error member without a message
ErrorPayloadWithFeatures ==
    /\ layerQuery.phase = "settled"
    /\ layerQuery.kind = "click"
    /\ layerQuery.answer.transport = "ok"
    /\ layerQuery.answer.error.present
    /\ layerQuery.answer.error.message = ""
    /\ layerQuery.answer.n > 0
    /\ Len(layerQuery.response.errors) = 1

\* the feature request of a layer without field metadata is sent, its
\* failure apart the field failure adds no errors entry, the click query
\* sends '1=1' with all output fields, and the features of a good answer are
\* the results
FieldFallback ==
    (layerQuery.phase \in {"sent", "settled"} /\ layerQuery.fieldsFailed)
        => /\ layerQuery.kind = "click" =>
                 /\ layerQuery.params.hasWhere
                 /\ layerQuery.params.where = AllFeatures
                 /\ layerQuery.params.allFields
                 /\ ~layerQuery.params.hasText
           /\ layerQuery.phase = "settled" =>
                 IF /\ layerQuery.answer.transport = "ok"
                    /\ ~layerQuery.answer.error.present
                    /\ layerQuery.answer.hasFeatures
                 THEN /\ layerQuery.response.errors = <<>>
                      /\ Len(layerQuery.response.results) = layerQuery.answer.n
                      /\ \A k \in 1..layerQuery.answer.n :
                            \E i \in 1..layerQuery.answer.n :
                               layerQuery.response.results[i]
                                  = RemoteFeature(QueriedLayer, k)
                 ELSE Len(layerQuery.response.errors) <= 1

\* C25 (amended): without field metadata the text search sends the text
\* parameter whenever there is a text, and no where clause other than the
\* filter the caller passed.
FieldFailureFallsBack ==
    /\ FieldFallback
    /\ ( /\ layerQuery.phase \in {"sent", "settled"}
         /\ layerQuery.fieldsFailed
         /\ layerQuery.kind = "search" )
          => /\ layerQuery.params.hasText = (layerQuery.text # "")
             /\ layerQuery.params.text = layerQuery.text
             /\ layerQuery.params.hasWhere = layerQuery.where
             /\ layerQuery.where =>
                   layerQuery.params.where = Clause(FALSE, {}, {}, 0, TRUE)

\* C25 (as stated): without field metadata the text search sends the text
\* parameter and no where clause.
FieldFailureSendsTextOnly ==
    /\ FieldFallback
    /\ ( /\ layerQuery.phase \in {"sent", "settled"}
         /\ layerQuery.fieldsFailed
         /\ layerQuery.kind = "search" )
          => /\ layerQuery.params.hasText
             /\ layerQuery.params.text = layerQuery.text
             /\ ~layerQuery.params.hasWhere

\* a text search without field metadata returned the features of its layer
SearchedWithoutFields ==
    /\ layerQuery.phase = "settled"
    /\ layerQuery.kind = "search"
    /\ layerQuery.fieldsFailed
    /\ layerQuery.text = "hobart"
    /\ layerQuery.params.hasText
    /\ Len(layerQuery.response.results) = MaxResultsOption
    /\ layerQuery.response.errors = <<>>

\* the query is a number
IsNumber(text) == text = "12"

\* C26: the filter of a text search over a layer with fields references the
\* selected fields of searchable type, or every field of searchable type
\* when none is selected: the string fields by case-folded substring, the
\* numeric ones by equality and only when the query is a number.
FilterReferencesSelection ==
    ( /\ layerQuery.phase \in {"sent", "settled"}
      /\ layerQuery.kind = "search"
      /\ layerQuery.text # ""
      /\ layerQuery.fields # <<>> )
        => LET fields == layerQuery.fields
               candidates ==
                  { fields[i] : i \in { j \in 1..Len(fields) :
                       /\ fields[j].type \in SearchableTypes
                       /\ \/ layerQuery.selectedFields = {}
                          \/ fields[j].name \in layerQuery.selectedFields } }
               strings == { f.name : f \in { g \in candidates :
                                               g.type = "esriFieldTypeString" } }
               numerics == { f.name : f \in { g \in candidates :
                                                g.type # "esriFieldTypeString" } }
           IN  /\ layerQuery.params.where.like = strings
               /\ layerQuery.params.where.equals
                     = IF IsNumber(layerQuery.text) THEN numerics ELSE {}
               /\ ~layerQuery.params.hasText

-----------------------------------------------------------------------------
(* Claims about the rendering surface *)

\* C27: the store never adds a source or a layer under an id the surface
\* has, and never removes one under an id it has not: the surface refuses no
\* call and no id is there twice.
SurfaceCallsAreGuarded ==
    /\ surface.faults = {}
    /\ \A i, j \in 1..Len(surface.layers) :
          i # j => surface.layers[i].id # surface.layers[j].id

\* the search overlay was put on a surface that had it, next to a dynamic
\* layer and the coordinate marker
OverlayReplaced ==
    /\ lastOp.op = "setSearchResults"
    /\ lastOp.flag
    /\ getLayer(surface, "search-results-points")
    /\ getLayer(surface, "coordinate-marker-layer")
    /\ \E id \in Ids : getLayer(surface, id)

\* the insertion point as the claim words it: the fallback passes over the
\* layers the store manages
InsertionPointAsStated(sf, managed) ==
    LET mapLayers == sf.layers
        placeLayer == FirstLayer(mapLayers,
            LAMBDA l : l.type = "symbol" /\ IdIncludes(l.id, "place_"))
        poiLayer == FirstLayer(mapLayers,
            LAMBDA l : l.type = "symbol" /\ IdIncludes(l.id, "poi_"))
        roadLayer == FirstLayer(mapLayers,
            LAMBDA l : l.type = "symbol" /\ IdIncludes(l.id, "roadname_"))
        otherLayer == FirstLayer(mapLayers,
            LAMBDA l : l.type # "background" /\ l.id \notin managed)
    IN  IF placeLayer # Null THEN placeLayer
        ELSE IF poiLayer # Null THEN poiLayer
        ELSE IF roadLayer # Null THEN roadLayer
        ELSE otherLayer

\* C28: on the current style findDynamicLayerInsertionPoint returns the first
\* place label, else the first point-of-interest label, else the first road
\* name label, else the first non-background layer that is not a dynamic
\* layer of the store, else nothing.
InsertionPointSkipsManagedLayers ==
    findDynamicLayerInsertionPoint(surface)
        = InsertionPointAsStated(surface, mapState.dynamicLayers)

-----------------------------------------------------------------------------
(* Claims about the coordinate helpers *)

IsNumeric(token) == token # <<>> /\ \A i \in 1..Len(token) : token[i] \in Digits

\* blanks and/or a single comma
IsSeparator(sep) ==
    /\ sep # <<>>
    /\ \A i \in 1..Len(sep) : sep[i] \in {" ", ","}
    /\ Cardinality({ i \in 1..Len(sep) : sep[i] = "," }) <= 1

TwoNumericTokens(s) ==
    \E i, j \in 1..Len(s) :
        /\ i < j
        /\ IsNumeric(SubSeq(s, 1, i))
        /\ IsSeparator(SubSeq(s, i + 1, j - 1))
        /\ IsNumeric(SubSeq(s, j, Len(s)))

\* C29: parseCoordinateInput returns coordinates exactly when the trimmed
\* input is two wholly numeric tokens separated by blanks and/or a single
\* comma, and null for every other input.
ParseIsAllOrNothing ==
    (coordinate.mode = "combined" /\ coordinate.phase \in {"parsed", "rejected"})
        => (coordinate.coords.ok <=> TwoNumericTokens(trim(coordinate.input)))

\* C30: validateMGACoordinates accepts exactly the eastings in
\* [200000, 700000] with the northings in [5150000, 5700000], names the
\* easting bound whenever the easting is out of range and the northing bound
\* when only the northing is, and convertMGAToLatLong throws for every input
\* that validation rejects.
ValidationNamesFailedBound ==
    LET easting == coordinate.coords.easting
        northing == coordinate.coords.northing
        v == coordinate.validation
        eastingOk == 200000 <= easting /\ easting <= 700000
        northingOk == 5150000 <= northing /\ northing <= 5700000
    IN  /\ v.done =>
            /\ v.isValid <=> (eastingOk /\ northingOk)
            /\ ~eastingOk => v.error = EastingError
            /\ (eastingOk /\ ~northingOk) => v.error = NorthingError
        /\ (coordinate.conversion # "none" /\ ~(eastingOk /\ northingOk))
              => coordinate.conversion = "raised"

\* both numbers are out of range, the easting is named, conversion threw
BothOutOfRangeRejected ==
    /\ coordinate.validation.done
    /\ coordinate.coords.easting = 700001
    /\ coordinate.coords.northing = 5149999
    /\ coordinate.validation.error = EastingError
    /\ coordinate.conversion = "raised"

-----------------------------------------------------------------------------
(* Claims about the response of a search *)

\* C37: hasMore of a search response is true exactly when the features found
\* across the layers outnumber the results in the returned list.
HasMoreTellsTruncation ==
    (query.phase = "settled" /\ query.kind = "search")
        => (query.response.hasMore
              <=> query.response.totalCount > Len(query.response.results))

\* C39: for non-blank text and no filter of the caller, the request of a
\* layer carries a where clause other than the match-all clause or the
\* generic text parameter.
SearchRequestIsFiltered ==
    ( /\ layerQuery.phase \in {"sent", "settled"}
      /\ layerQuery.kind = "search"
      /\ layerQuery.text # ""
      /\ ~layerQuery.where )
        => \/ layerQuery.params.hasWhere /\ layerQuery.params.where # AllFeatures
           \/ layerQuery.params.hasText

-----------------------------------------------------------------------------
(* Claims about the search box and the click handler *)

\* searchFeatures or queryFeaturesAtLocation was called with input that is
\* not valid
InvalidQuery ==
    /\ query.phase # "idle"
    /\ \/ query.kind = "search" /\ Trim(query.text) = "" /\ ~query.where
       \/ query.kind = "click" /\ Len(query.layers) = 0

\* C32: blank text without a where clause, an empty layer list, a search
\* with no active layer and a click with no active layer issue no request
\* and leave empty results and no errors, the handlers giving a reason.
InvalidInputIssuesNoRequest ==
    [][ /\ InvalidQuery' =>
            /\ query'.phase = "settled"
            /\ query'.outcomes = <<>>
            /\ query'.response.results = <<>>
            /\ query'.response.errors = <<>>
        /\ (panel' # panel /\ panel'.event \in {"searchNoLayers", "clickNoLayers"}) =>
            /\ panel'.requests = panel.requests
            /\ panel'.searches = panel.searches
            /\ panel'.clickQueries = panel.clickQueries
            /\ panel'.event = "searchNoLayers" =>
                   panel'.searchResults.n = 0 /\ panel'.searchError # ""
            /\ panel'.event = "clickNoLayers" =>
                   panel'.clickQueryResults.n = 0 /\ panel'.clickQueryError # ""
      ]_vars

\* a search with no active layer was refused with a reason
SearchRefusedWithoutLayers ==
    /\ panel.event = "searchNoLayers"
    /\ panel.searchError # ""
    /\ panel.showResults
    /\ panel.requests = 0

\* C33: the response of a search is written to the result slot whenever it
\* arrives, whatever was issued since: the results shown once every
\* response has arrived can be those of a superseded search.
NoStaleResponseGuard ==
    [][ (panel'.event = "searchResolved" /\ panel'.searches # panel.searches) =>
            \E i \in 1..Len(panel.searches) :
                /\ panel'.searches = Without(panel.searches, i)
                /\ panel'.searchResults.of = panel.searches[i].of
      ]_vars

\* every response has arrived and the results shown are those of the first
\* of two searches
StaleResultsShown ==
    /\ panel.searches = <<>>
    /\ panel.issued = 2
    /\ panel.searchResults.of = 1

\* C40: at most one click query is in flight, a click that arrives meanwhile
\* issues no request and changes nothing, the slot is written only with the
\* results of the latest accepted click, and the flag is down once the query
\* is over.
OneClickQueryInFlight ==
    [][ /\ Cardinality(panel'.clickQueries) <= 1
        /\ panel'.clickQueryLoading <=> panel'.clickQueries # {}
        /\ (panel.clickQueryLoading /\ panel'.event \in {"clickIgnored", "clickIssued", "clickNoLayers"}) =>
              [panel' EXCEPT !.event = panel.event] = panel
        /\ panel'.clickQueryResults \notin {panel.clickQueryResults, NoResults} =>
              panel'.clickQueryResults.of = panel'.accepted
      ]_vars

\* a click arrived while a click query was in flight
ClickWhileLoading ==
    /\ panel.event = "clickIgnored"
    /\ panel.clickQueryLoading
    /\ panel.clickQueries # {}

\* C34: during one loadAllLayers run at most batchSize describe requests are
\* in flight, and a service of a later batch is requested only when every
\* service of the earlier batches has settled, successfully or not
BatchIndex(i) == (i - 1) \div batchSize

BatchesRunOneAtATime ==
    LET ld == catalog.load
        n == Len(ld.outcomes)
    IN  /\ Cardinality({ i \in 1..n : ld.outcomes[i].state = "pending" }) <= batchSize
        /\ \A i, j \in 1..n :
              /\ BatchIndex(i) < BatchIndex(j)
              /\ ld.outcomes[j].state # "waiting"
              => ld.outcomes[i].state \in {"ok", "failed"}

\* the second batch is in flight after a request of the first batch failed
SecondBatchInFlight ==
    LET ld == catalog.load
        n == Len(ld.outcomes)
    IN  /\ \E j \in 1..n : BatchIndex(j) = 1 /\ ld.outcomes[j].state = "pending"
        /\ \E i \in 1..n : BatchIndex(i) = 0 /\ ld.outcomes[i].state = "failed"
        /\ \E i \in 1..n : BatchIndex(i) = 2 /\ ld.outcomes[i].state = "waiting"

\* C38: features of one layer whose remote object ids are pairwise distinct,
\* 0 included, get pairwise distinct result ids
ResultIdsAreUnique ==
    LET n == Len(feature.features)
    IN  (\A i, j \in 1..n :
            /\ feature.features[i].attributes.OBJECTID # <<>>
            /\ i # j => feature.features[i].attributes.OBJECTID
                           # feature.features[j].attributes.OBJECTID)
        => \A i, j \in 1..n : i # j => feature.results[i].id # feature.results[j].id

\* C31: a point becomes a Point, a path list a Polyline, a ring list a
\* Polygon; a point within 180 and 90 keeps its coordinates, and the
\* Mercator inverse is applied exactly to the points outside
GeometryNormalized ==
    \A i \in 1..Len(feature.features) :
       LET g == feature.features[i].geometry
           p == feature.results[i].geometry
           raw == <<Num(g.x, 0), Num(g.y, 0)>>
       IN  /\ g.kind = "point" =>
                /\ p.type = "Point"
                /\ (Abs(g.x) <= 180 /\ Abs(g.y) <= 90) => p.coordinates = raw
                /\ (Abs(g.x) > 180 \/ Abs(g.y) > 90) =>
                      p.coordinates = <<Longitude(g.x), Latitude(g.y)>>
           /\ g.kind = "paths" => p.type = "Polyline" /\ p.coordinates = raw
           /\ g.kind = "rings" => p.type = "Polygon" /\ p.coordinates = raw

\* a point out of range in y only has been converted, next to one in range
PointConvertedOnLatitudeAlone ==
    \E i, j \in 1..Len(feature.features) :
       /\ feature.features[i].geometry = Geometry("point", 147, 91)
       /\ feature.results[i].geometry.coordinates = <<Num(0, 1321), Num(0, 817)>>
       /\ feature.features[j].geometry = Geometry("point", 180, -90)
       /\ feature.results[j].geometry.coordinates = <<Num(180, 0), Num(-90, 0)>>

\* C35: with the map loaded and no deferred task pending, the managed layers
\* on the surface lie, bottom to top, in the order dynamicLayerOrder gives
\* the active ids (read for the active ids that are on the surface)
ManagedLayersBottomToTop ==
    LET managed == SelectSeq(surface.layers, LAMBDA l : l.id \in Ids)
    IN  [i \in 1..Len(managed) |-> managed[i].id]

SurfaceOrderFollowsLayerOrder ==
    (mapState.map /\ mapState.isLoaded /\ timers = <<>>)
        => ManagedLayersBottomToTop =
             SelectSeq(mapState.dynamicLayerOrder,
                       LAMBDA id : /\ SetHas(mapState.activeDynamicLayerIds, id)
                                   /\ getLayer(surface, id))

\* C36: with no deferred task pending, a managed layer on the surface has the
\* opacity and the visibility the store holds for its id
SurfacePaintMatchesStore ==
    timers = <<>> =>
        \A i \in 1..Len(surface.layers) :
           LET l == surface.layers[i]
           IN  l.id \in Ids =>
                 /\ MapHas(mapState.dynamicLayerOpacities, l.id)
                       => l.opacity = mapState.dynamicLayerOpacities[l.id]
                 /\ MapHas(mapState.dynamicLayerVisibilities, l.id)
                       => l.visible = mapState.dynamicLayerVisibilities[l.id]

====
